---------------------------- MODULE Spec2Model ----------------------------
(***************************************************************************)
(* Zabbix -> NetBox reconciliation engine (ServerSync, src/sync.py).       *)
(*                                                                         *)
(* State: the Zabbix source inventory, the NetBox target (devices, mgmt0   *)
(* interfaces, IP addresses), the Redis fingerprint cache and last-seen    *)
(* store, the per-run statistics and the position of run_sync.             *)
(*                                                                         *)
(* Remote objects are modelled by what the code reads and writes of them.  *)
(* pynetbox Record.update(data) assigns every key of data and PATCHes the  *)
(* fields that differ; NetBox merges a PATCHed custom_fields object key by *)
(* key into the stored one; deleting a device deletes its interfaces and   *)
(* the addresses assigned to them.                                         *)
(***************************************************************************)
EXTENDS Integers, Sequences, FiniteSets, TLC

(***************************************************************************)
(* Bounds of the model.                                                    *)
(***************************************************************************)
MaxDay == 3
MaxEdits == 1
MaxDevId == 3
MaxRuns == 2
MaxFaults == 1
MaxCalls == 3
MaxAttrs == 2
MaxSource == 2

(***************************************************************************)
(* Configuration values (src/config.py), in days. Each is read from the    *)
(* environment of the process; the model runs with small values.           *)
(* MANAGED_DEVICE_ROLES is read by sync.py but not defined in config.py;   *)
(* it is modelled as the roles that the engine manages.                    *)
(***************************************************************************)
DECOMMISSION_AFTER_DAYS == 1
DELETE_AFTER_DECOMMISSION_DAYS == 1
REDIS_TTL == 1
MANAGED_DEVICE_ROLES == {"Server"}

HostIds == {"h1", "h2"}
SourceOrder == <<"h1", "h2">>
HostNames == {"a", "b", "c"}
CpuValues == {"c1", "c2"}
SerialValues == {"s1", "s2"}
Roles == {"Server", "Other"}
Days == 0..MaxDay
DevIds == 1..MaxDevId

\* Python None for a device, and for a date.
NoDevice == 0
NoDate == 0 - 1

VARIABLES
    today,        \* datetime.now().date(), as a day number
    hosts,        \* Zabbix: hostid -> record
    devices,      \* NetBox dcim.devices: id -> record (domain = existing ids)
    device_roles, \* NetBox dcim.device_roles: names of the roles that exist
    nextId,       \* NetBox: next device id to issue
    interfaces,   \* NetBox dcim.interfaces: ids of devices that have mgmt0
    ip_addresses, \* NetBox ipam.ip_addresses: address -> record (domain = existing)
    redis_hash,   \* Redis: hostid -> [hash, set] (domain = live keys)
    lastseen,     \* Redis: hostid -> day (lastseen:<hostid> keys)
    cfg,          \* configuration of the process (fixed during a behaviour)
    stats,        \* ServerSync.stats
    phase,        \* "idle" | "upsert": position of run_sync
    queue,        \* run_sync: hostids of new_hosts + changed_hosts still to sync
    classified,   \* check_changes: [new, changed] hostid sets of the current run
    calls,        \* device-level write calls issued to NetBox in the current run
    last,         \* the last handler that ran, its inputs and what it met
    edits,        \* number of source edits so far
    runs,         \* number of run_sync invocations so far
    faults,       \* number of remote calls that have raised so far
    catalog,      \* NetBox dcim.manufacturers and dcim.device_types, and the
                  \* ensure_* calls made on them
    fingerprint,  \* two delivered records and the hashes computed for them
    collector,    \* a Zabbix answer and what get_vmware_hosts made of it
    hist          \* facts about the previous run, used to state two-run claims

vars == <<today, hosts, devices, device_roles, nextId, interfaces, ip_addresses,
          redis_hash, lastseen, cfg, stats, phase, queue, classified, calls, last,
          edits, runs, faults, catalog, fingerprint,
          collector, hist>>

-----------------------------------------------------------------------------
(***************************************************************************)
(* Helpers.                                                                *)
(***************************************************************************)
Min(a, b) == IF a < b THEN a ELSE b

\* 1 for a remote call that raises, 0 for one that does not.
Cost(raises) == IF raises THEN 1 ELSE 0

Restrict(f, S) == [x \in S |-> f[x]]

\* f with key k set to v (k need not be in the domain).
Put(f, k, v) == [x \in (DOMAIN f) \cup {k} |-> IF x = k THEN v ELSE f[x]]

Range(s) == {s[i] : i \in 1..Len(s)}

\* The elements of a finite set of integers in increasing order.
RECURSIVE SortedSeq(_)
SortedSeq(S) ==
    IF S = {} THEN <<>>
    ELSE LET m == CHOOSE x \in S : \A y \in S : x <= y
         IN <<m>> \o SortedSeq(S \ {m})

EmptyStats ==
    [new_hosts |-> <<>>, changed_hosts |-> <<>>, error_hosts |-> <<>>,
     decommissioned_hosts |-> <<>>, deleted_hosts |-> <<>>,
     recovered_hosts |-> <<>>, renamed_hosts |-> <<>>,
     skipped_hosts |-> <<>>, rack_conflicts |-> <<>>,
     error_details |-> [n \in {} |-> ""]]

-----------------------------------------------------------------------------
(***************************************************************************)
(* The mutable remote state and the run statistics as one value, so that   *)
(* a handler is a function from world to world.                            *)
(***************************************************************************)
World ==
    [devices |-> devices, device_roles |-> device_roles, nextId |-> nextId,
     interfaces |-> interfaces, ip_addresses |-> ip_addresses,
     redis_hash |-> redis_hash, stats |-> stats, calls |-> calls]

AddStat(w, key, v) == [w EXCEPT !.stats[key] = Append(@, v)]

\* A failure handler that records nothing: what the error property below must
\* tell from AddError.
AddErrorSilently(w, host_name, reason) == w

\* sync.py 609-610, 621-622, 632-633, 837-838: the record is appended to
\* error_hosts and its reason stored in error_details under its name.
AddError(w, host_name, reason) ==
    [w EXCEPT !.stats.error_hosts = Append(@, host_name),
              !.stats.error_details =
                  [n \in DOMAIN @ \cup {host_name} |->
                      IF n = host_name THEN reason ELSE @[n]]]

AddCall(w, op, d) == [w EXCEPT !.calls = @ \cup {<<op, d>>}]

\* utils.py HashCalculator.calculate_host_hash: sha256 over the JSON of the
\* significant fields with sorted keys, modelled by the tuple of those fields
\* (the digest is taken to be injective). rack_name is read from location_lat,
\* not from software_app_b, which sync_device uses as the rack name.
calculate_host_hash(h) ==
    [name |-> h.name, cpu |-> h.hardware, ip |-> h.ip, status |-> h.status,
     serial |-> h.serialno_a, rack_name |-> h.location_lat,
     rack_unit |-> h.location_lon]

\* A validation that lets every record pass: what the skip property below
\* must tell from validate_host_data.
validate_nothing(id, h) == TRUE

\* utils.py DataValidator.validate_host_data
validate_host_data(id, h) == id # "" /\ h.name # "" /\ h.inventory

\* sync.py get_vmware_hosts: the filtered source records in source order,
\* cut to HOST_LIMIT when one is set; [] when the Zabbix call raises.
get_vmware_hosts(zfail) ==
    IF zfail THEN <<>>
    ELSE LET filtered_hosts == SelectSeq(SourceOrder, LAMBDA id : hosts[id].present)
         IN IF cfg.HOST_LIMIT # 0
            THEN SubSeq(filtered_hosts, 1, Min(cfg.HOST_LIMIT, Len(filtered_hosts)))
            ELSE filtered_hosts

\* A classification that does not read the cache: what the classification
\* property below must tell from check_changes.
check_changes_uncached(hs, cacheErr) == <<hs, <<>>>>

\* sync.py check_changes: <<new_hosts, changed_hosts>>. cacheErr holds the
\* hostids whose Redis read raises.
check_changes(hs, cacheErr) ==
    IF ~cfg.redis_client THEN <<hs, <<>>>>
    ELSE LET isNew(id) == id \notin cacheErr /\ id \notin DOMAIN redis_hash
             isChanged(id) ==
                 \/ id \in cacheErr
                 \/ /\ id \in DOMAIN redis_hash
                    /\ redis_hash[id].hash # calculate_host_hash(hosts[id])
         IN <<SelectSeq(hs, isNew), SelectSeq(hs, isChanged)>>

\* NetBox: deleting a device deletes its interfaces and the addresses assigned
\* to them; a primary address that is deleted is unset on its device.
DeleteAddresses(w, gone) ==
    [w EXCEPT
       !.ip_addresses = Restrict(@, DOMAIN @ \ gone),
       !.devices = [x \in DOMAIN w.devices |->
                      IF w.devices[x].primary_ip4 \in gone
                      THEN [w.devices[x] EXCEPT !.primary_ip4 = ""]
                      ELSE w.devices[x]]]

DeleteDevice(w, d) ==
    LET gone == {a \in DOMAIN w.ip_addresses : w.ip_addresses[a].assigned = d}
        w1 == DeleteAddresses(w, gone)
    IN [w1 EXCEPT !.devices = Restrict(@, DOMAIN @ \ {d}),
                  !.interfaces = @ \ {d},
                  !.calls = @ \cup {<<"delete", d>>}]

\* A rollback that compensates nothing: what the rollback properties below
\* must tell from rollback_device_creation.
rollback_nothing(w, device, dname, interface, ip_address, rbFail) == w

\* A rollback that gives up at the first compensating step that raises: what
\* the property on failing rollback steps below must tell from
\* rollback_device_creation.
rollback_abandoned(w, device, dname, interface, ip_address, rbFail) ==
    IF cfg.DRY_RUN \/ rbFail # {} THEN w
    ELSE LET w1 == IF ip_address \in DOMAIN w.ip_addresses
                   THEN DeleteAddresses(w, {ip_address}) ELSE w
         IN IF device \in DOMAIN w1.devices THEN DeleteDevice(w1, device)
            ELSE [w1 EXCEPT !.interfaces = @ \ {interface}]

\* sync.py rollback_device_creation(device, interface, ip_address). dname is
\* device.name of the local object; rbFail holds the compensating steps whose
\* remote call raises (each is caught where it is made).
rollback_device_creation(w, device, dname, interface, ip_address, rbFail) ==
    IF cfg.DRY_RUN THEN w
    ELSE
    LET w1 == IF ip_address # "" /\ "ip" \notin rbFail
                 /\ ip_address \in DOMAIN w.ip_addresses
              THEN DeleteAddresses(w, {ip_address}) ELSE w
        w2 == IF interface # NoDevice /\ "interface" \notin rbFail
              THEN DeleteAddresses(
                     [w1 EXCEPT !.interfaces = @ \ {interface}],
                     {a \in DOMAIN w1.ip_addresses :
                          w1.ip_addresses[a].assigned = interface})
              ELSE w1
        existing == {x \in DOMAIN w2.devices : w2.devices[x].name = dname}
    IN IF device # NoDevice /\ device \in DOMAIN w2.devices
          /\ Cardinality(existing) = 1 /\ "device" \notin rbFail
       THEN DeleteDevice(w2, device)
       ELSE w2

\* sync.py check_rack_position_conflict: the first device at that rack and
\* position other than device_id, or None; None too when the query raises.
check_rack_position_conflict(devs, rack, position, device_id, qfail) ==
    IF rack = "" \/ position = 0 \/ qfail THEN NoDevice
    ELSE LET conflicts == {x \in DOMAIN devs :
                              /\ devs[x].rack = rack
                              /\ devs[x].position = position
                              /\ ~(device_id # NoDevice /\ x = device_id)}
         IN IF conflicts = {} THEN NoDevice
            ELSE CHOOSE x \in conflicts : \A y \in conflicts : x <= y

\* A lookup that finds nothing, so that a device is always created: what the
\* rename property below must tell from get_or_create_device.
create_always(w, host_id, host_name, lk) ==
    [w |-> w, device |-> NoDevice, is_new |-> TRUE]

\* sync.py get_or_create_device. The result carries the world after the
\* rename or the hostid backfill, the device found (NoDevice: none, create
\* one) and is_new. lk = "lookup": the filter by hostid raises; lk =
\* "gsave": device.save() of the rename or of the backfill raises. Both are
\* caught inside and answered with (None, True). devices.get(name=...) raises
\* ValueError when several devices carry the name, caught the same way.
get_or_create_device(w, host_id, host_name, lk) ==
    LET by_id == {x \in DOMAIN w.devices :
                     w.devices[x].custom_fields.zabbix_hostid = host_id}
        by_name == {x \in DOMAIN w.devices : w.devices[x].name = host_name}
        none(wx) == [w |-> wx, device |-> NoDevice, is_new |-> TRUE]
        found(wx, d) == [w |-> wx, device |-> d, is_new |-> FALSE]
    IN IF lk = "lookup" THEN none(w)
       ELSE IF by_id # {}
       THEN LET d == CHOOSE x \in by_id : \A y \in by_id : x <= y
            IN IF w.devices[d].name # host_name
               THEN LET w1 == AddStat(w, "renamed_hosts",
                                      <<w.devices[d].name, host_name>>)
                    IN IF cfg.DRY_RUN THEN found(w1, d)
                       ELSE IF lk = "gsave" THEN none(w1)
                       ELSE found(AddCall([w1 EXCEPT !.devices[d].name = host_name],
                                          "update", d), d)
               ELSE found(w, d)
       ELSE IF Cardinality(by_name) > 1 THEN none(w)
       ELSE IF by_name # {}
       THEN LET d == CHOOSE x \in by_name : TRUE
            IN IF w.devices[d].custom_fields.zabbix_hostid = "" /\ ~cfg.DRY_RUN
               THEN IF lk = "gsave" THEN none(w)
                    ELSE found(AddCall(
                           [w EXCEPT !.devices[d].custom_fields.zabbix_hostid = host_id],
                           "update", d), d)
               ELSE found(w, d)
       ELSE none(w)

\* A release that leaves the old address as it is whatever the policy: what
\* the address property below must tell from ReleaseOldPrimary.
release_nothing(w, old) == w

\* sync.py sync_ip_address(ip, device) for an existing device d. raised: the
\* exception that the handler re-raises. fail = "iface": the interface get or
\* create raises; "ip": the address get or create raises (the interface is
\* there); "primary": device.save() of the primary address raises;
\* "release": the get, delete or save of the old primary address raises, which
\* is caught where it is made (949-950) and leaves the old address as it is.
ReleaseOldPrimary(w, old) ==
    IF old \notin DOMAIN w.ip_addresses THEN w
    ELSE IF cfg.ORPHANED_IP_ACTION = "delete" THEN DeleteAddresses(w, {old})
    ELSE IF cfg.ORPHANED_IP_ACTION = "deprecated"
    THEN [w EXCEPT !.ip_addresses[old] =
                      [assigned |-> NoDevice, status |-> "deprecated"]]
    ELSE w

sync_ip_address(w, ip, d, fail) ==
    IF ip = "" THEN [w |-> w, raised |-> FALSE]
    ELSE IF fail = "iface" THEN [w |-> w, raised |-> TRUE]
    ELSE IF d \notin w.interfaces /\ cfg.DRY_RUN THEN [w |-> w, raised |-> FALSE]
    ELSE
    LET w1 == [w EXCEPT !.interfaces = @ \cup {d}]
        old == w.devices[d].primary_ip4
        w2 == IF old # "" /\ old # ip /\ ~cfg.DRY_RUN /\ fail # "release"
              THEN ReleaseOldPrimary(w1, old) ELSE w1
    IN IF fail = "ip" THEN [w |-> w2, raised |-> TRUE]
       ELSE
       LET exists == ip \in DOMAIN w2.ip_addresses
           w3 == IF cfg.DRY_RUN THEN w2
                 ELSE IF exists
                 THEN IF w2.ip_addresses[ip].assigned # d
                      THEN [w2 EXCEPT !.ip_addresses[ip] =
                                        [assigned |-> d, status |-> "active"]]
                      ELSE w2
                 ELSE [w2 EXCEPT !.ip_addresses =
                                   Put(@, ip, [assigned |-> d, status |-> "active"])]
           have == exists \/ ~cfg.DRY_RUN
       IN IF have /\ old # ip /\ ~cfg.DRY_RUN
          THEN IF fail = "primary" THEN [w |-> w3, raised |-> TRUE]
               ELSE [w |-> AddCall([w3 EXCEPT !.devices[d].primary_ip4 = ip],
                                   "update", d),
                     raised |-> FALSE]
          ELSE [w |-> w3, raised |-> FALSE]

-----------------------------------------------------------------------------
(***************************************************************************)
(* Manufacturers and device types (sync.py 337-444, utils.py 103-136).     *)
(* Strings are tokens: strip, the mapping and the regular expressions are  *)
(* tables over the values below.                                           *)
(***************************************************************************)
RawVendors == {"", "N/A", " ", "Dell Inc.", "DELL", "Dell", "HP", "Acme"}
RawModels == {"", "N/A", "X9", "X9 ", "PowerEdge  R740", "To be filled by O.E.M."}
RawHardware == {"", "PowerEdge", "Dell PowerEdge R740 2U", "PowerEdge R640",
                "ProLiant DL380"}

\* str.strip of a vendor value.
strip_vendor(vendor) == IF vendor = " " THEN "" ELSE vendor

\* utils.py 103-120.
normalize_vendor(vendor) ==
    IF vendor = "" \/ vendor = "N/A" THEN "Unknown"
    ELSE LET v == strip_vendor(vendor)
         IN CASE v \in {"Dell Inc.", "DELL"} -> "Dell"
              [] v \in {"Hewlett Packard Enterprise", "HP"} -> "HPE"
              [] v = "Huawei Technologies Co., Ltd." -> "Huawei"
              [] v = "LENOVO" -> "Lenovo"
              [] v = "VMware, Inc." -> "VMware"
              [] OTHER -> v

\* str.strip, then runs of white space collapsed to one space.
collapse_model(model) ==
    CASE model = "X9 " -> "X9"
      [] model = "PowerEdge  R740" -> "PowerEdge R740"
      [] OTHER -> model

\* utils.py 123-136.
normalize_model(model) ==
    IF model = "" \/ model = "N/A" THEN "Unknown"
    ELSE LET m == collapse_model(model)
         IN IF m = "To be filled by O.E.M." THEN "Unknown" ELSE m

\* sync.py 387-395: the model named by the hardware field, "" when the field
\* names none (no PowerEdge or ProLiant, or no word after it).
hardware_model(hardware) ==
    CASE hardware = "Dell PowerEdge R740 2U" -> "PowerEdge R740"
      [] hardware = "PowerEdge R640" -> "PowerEdge R640"
      [] hardware = "ProLiant DL380" -> "ProLiant DL380"
      [] OTHER -> ""

\* sync.py 379-400: the model ensure_device_type looks up and creates.
resolve_model(model, hardware) ==
    LET m == normalize_model(model)
    IN IF m # "Unknown" THEN m
       ELSE IF hardware_model(hardware) # "" THEN hardware_model(hardware)
       ELSE "Generic Server"

\* utils.py 240-264 over the models above: a height is found by key or by the
\* model being part of a key of U_HEIGHT_MAPPING, or the key is Generic.
get_u_height_known(model) ==
    model \in {"PowerEdge R740", "PowerEdge R640", "ProLiant DL380",
               "Generic Server"}

NoEnsure == [op |-> "", existed |-> FALSE, created |-> FALSE, returned |-> FALSE]

\* manufacturers and device_types are what the target holds; had_* what it
\* held before the first call; created_* the create calls that succeeded.
NoCatalog ==
    [manufacturers |-> {}, device_types |-> {},
     had_manufacturers |-> {}, had_device_types |-> {},
     created_manufacturers |-> <<>>, created_device_types |-> <<>>,
     new_models |-> <<>>, n |-> 0, last |-> NoEnsure]

EnsureFails == {"none", "get", "create"}

\* A lookup that finds nothing: what the uniqueness property below must tell
\* from device_types_get.
device_types_get_blind(c, manufacturer, model) == FALSE

\* 346: netbox.dcim.manufacturers.get(name=vendor_name).
manufacturers_get(c, vendor_name) == vendor_name \in c.manufacturers

\* 404-407: netbox.dcim.device_types.get(model=, manufacturer_id=).
device_types_get(c, manufacturer, model) ==
    <<manufacturer, model>> \in c.device_types

\* 337-369.  The result is the catalog and the manufacturer returned ("" for
\* None).
ensure_manufacturer(c, dry, vendor, fail) ==
    LET normalized == normalize_vendor(vendor)
        vendor_name == IF normalized = "" \/ normalized = "Unknown"
                       THEN "Generic" ELSE normalized
        found == manufacturers_get(c, vendor_name)
        met == [NoEnsure EXCEPT !.op = "ensure_manufacturer", !.existed = found]
    IN IF fail = "get" THEN [c |-> [c EXCEPT !.last = met], manufacturer |-> ""]
       ELSE IF found THEN
            [c |-> [c EXCEPT !.last = [met EXCEPT !.returned = TRUE]],
             manufacturer |-> vendor_name]
       ELSE IF dry THEN
            [c |-> [c EXCEPT !.last = [met EXCEPT !.returned = TRUE]],
             manufacturer |-> vendor_name]
       ELSE IF fail = "create" THEN
            [c |-> [c EXCEPT !.last = met], manufacturer |-> ""]
       ELSE [c |-> [c EXCEPT
                      !.manufacturers = @ \cup {vendor_name},
                      !.created_manufacturers =
                          Append(@, [normalized |-> normalized,
                                     name |-> vendor_name]),
                      !.last = [met EXCEPT !.created = TRUE, !.returned = TRUE]],
             manufacturer |-> vendor_name]

\* 371-444.  The result is the catalog and the model of the device type
\* returned ("" for None).
ensure_device_type(c, dry, model, manufacturer, hardware, fail) ==
    LET normalized == normalize_model(model)
        resolved == resolve_model(model, hardware)
        found == device_types_get(c, manufacturer, resolved)
        met == [NoEnsure EXCEPT !.op = "ensure_device_type", !.existed = found]
        noted == IF get_u_height_known(resolved) THEN c
                 ELSE [c EXCEPT !.new_models =
                                    Append(@, <<manufacturer, resolved>>)]
    IN IF manufacturer = "" THEN
            [c |-> [c EXCEPT !.last = [met EXCEPT !.existed = FALSE]],
             device_type |-> ""]
       ELSE IF fail = "get" THEN
            [c |-> [c EXCEPT !.last = met], device_type |-> ""]
       ELSE IF found THEN
            [c |-> [c EXCEPT !.last = [met EXCEPT !.returned = TRUE]],
             device_type |-> resolved]
       ELSE IF dry THEN
            [c |-> [noted EXCEPT !.last = [met EXCEPT !.returned = TRUE]],
             device_type |-> resolved]
       ELSE IF fail = "create" THEN
            [c |-> [noted EXCEPT !.last = met], device_type |-> ""]
       ELSE [c |-> [noted EXCEPT
                      !.device_types = @ \cup {<<manufacturer, resolved>>},
                      !.created_device_types =
                          Append(@, [manufacturer |-> manufacturer,
                                     normalized |-> normalized,
                                     model |-> resolved]),
                      !.last = [met EXCEPT !.created = TRUE, !.returned = TRUE]],
             device_type |-> resolved]

-----------------------------------------------------------------------------
(***************************************************************************)
(* The fingerprint on the records as Zabbix delivers them (utils.py        *)
(* 166-193).  host_data is a sequence of <<key, value>> pairs with         *)
(* distinct keys, in the order of delivery; the inventory keys stand       *)
(* beside name and status, and "interfaces" holds what get_primary_ip      *)
(* returns for the record.  The digest is taken to be injective, so the    *)
(* hash is the JSON text, a sequence of pairs.                             *)
(***************************************************************************)
\* dict.get(key, default)
Get(host_data, key, default) ==
    IF \E i \in DOMAIN host_data : host_data[i][1] = key
    THEN host_data[CHOOSE i \in DOMAIN host_data : host_data[i][1] = key][2]
    ELSE default

\* Significant fields taken as delivered, under the keys of delivery: what the
\* fingerprint property below must tell from hash_data.
hash_data_raw(host_data) == host_data

\* 172-189: hash_data, in the order the literal is written.
hash_data(host_data) ==
    << <<"name", Get(host_data, "name", "")>>,
       <<"vendor", normalize_vendor(Get(host_data, "vendor", ""))>>,
       <<"model", normalize_model(Get(host_data, "model", ""))>>,
       <<"os", Get(host_data, "os", "")>>,
       <<"os_version", Get(host_data, "os_short", "")>>,
       <<"cpu", Get(host_data, "hardware", "")>>,
       <<"memory", Get(host_data, "software_app_a", "")>>,
       <<"cluster", Get(host_data, "alias", "")>>,
       <<"location", Get(host_data, "location", "")>>,
       <<"ip", Get(host_data, "interfaces", "")>>,
       <<"status", Get(host_data, "status", "")>>,
       <<"serial", Get(host_data, "serialno_a", "")>>,
       <<"asset_tag", Get(host_data, "asset_tag", "")>>,
       <<"rack_name", Get(host_data, "location_lat", "")>>,
       <<"rack_unit", Get(host_data, "location_lon", "")>> >>

\* The keys of hash_data in the order of sort_keys=True.
SortedKeys ==
    <<"asset_tag", "cluster", "cpu", "ip", "location", "memory", "model", "name",
      "os", "os_version", "rack_name", "rack_unit", "serial", "status", "vendor">>

\* 192: json.dumps(hash_data, sort_keys=True).
json_dumps(d) == [i \in DOMAIN SortedKeys |-> <<SortedKeys[i], Get(d, SortedKeys[i], "")>>]

\* 167-193, for the primary address the callers pass (get_primary_ip of the
\* same record).
host_hash(host_data) == json_dumps(hash_data(host_data))

\* The attributes a record may carry: "host" is not read by the hash.
AttrValues ==
    [name |-> {"a", "b"}, vendor |-> {"Dell Inc.", "DELL", "N/A"},
     model |-> {"X9", "X9 "}, status |-> {"0", "1"}, host |-> {"t1", "t2"}]

Attrs == UNION {{<<k, v>> : v \in AttrValues[k]} : k \in DOMAIN AttrValues}

HostData ==
    {s \in UNION {[1..n -> Attrs] : n \in 0..MaxAttrs} :
        \A i, j \in DOMAIN s : i # j => s[i][1] # s[j][1]}

NoHash == <<>>

\* The two records under comparison and the hashes computed for them so far.
NoFingerprint ==
    [rec |-> [x \in {"a", "b"} |-> <<>>], hash |-> [x \in {"a", "b"} |-> NoHash]]

-----------------------------------------------------------------------------
(***************************************************************************)
(* The collector's filter on the records as Zabbix answers them (sync.py   *)
(* 128-179, config.py 143-159).  A record carries the names of its parent  *)
(* templates and of its groups; `incl in template` is Python's substring   *)
(* test, a table over the names below.                                     *)
(***************************************************************************)
INCLUDED_TEMPLATES == {"VMware Hypervisor"}
EXCLUDED_TEMPLATES == {"Juniper by SNMP", "Template Net SNMP",
                       "Template Module Generic SNMP"}
EXCLUDED_GROUPS == {"Network", "DataStore", "Virtual machines"}

TemplateNames == {"VMware Hypervisor", "Template VM VMware Hypervisor", "Linux",
                  "Template Net SNMP", "Template Net SNMP v2"}
GroupNames == {"Servers", "Network", "Network devices"}

\* A test that takes a name for a pattern only when both are the same string:
\* what the filter property below must tell from Contains.
SameName(name, pattern) == name = pattern

\* pattern in name
Contains(name, pattern) ==
    \/ name = pattern
    \/ <<name, pattern>> \in {<<"Template VM VMware Hypervisor", "VMware Hypervisor">>,
                              <<"Template Net SNMP v2", "Template Net SNMP">>,
                              <<"Network devices", "Network">>}

\* 148-166
has_included(host) ==
    \E template \in host.parentTemplates, incl \in INCLUDED_TEMPLATES :
        Contains(template, incl)

has_excluded(host) ==
    \E template \in host.parentTemplates, excl \in EXCLUDED_TEMPLATES :
        Contains(template, excl)

has_excluded_group(host) ==
    \E group \in host.groups, excl \in EXCLUDED_GROUPS : Contains(group, excl)

\* 140-179: the answer of zabbix.host.get filtered, then cut to HOST_LIMIT when
\* that is not 0 (None and 0 are both false); [] when the call raises.
filter_hosts(answer, limit, zfail) ==
    IF zfail THEN <<>>
    ELSE LET filtered_hosts ==
                 SelectSeq(answer, LAMBDA host :
                     has_included(host) /\ ~has_excluded(host)
                         /\ ~has_excluded_group(host))
         IN IF limit # 0
            THEN SubSeq(filtered_hosts, 1, Min(limit, Len(filtered_hosts)))
            ELSE filtered_hosts

\* The records a Zabbix answer is made of.
SourceRecords ==
    {h \in [hostid : HostIds, parentTemplates : SUBSET TemplateNames,
            groups : SUBSET GroupNames] :
        Cardinality(h.parentTemplates) <= 2 /\ Cardinality(h.groups) <= 1}

\* The hostids of an answer, in the order of the answer.
SourceIds == <<"h1", "h2", "h3">>

Answers ==
    UNION {{[i \in 1..n |-> [f[i] EXCEPT !.hostid = SourceIds[i]]] :
               f \in [1..n -> {h \in SourceRecords : h.hostid = SourceIds[1]}]} :
           n \in 0..MaxSource}

\* The answer of Zabbix, the HOST_LIMIT in force, and what get_vmware_hosts
\* returned for them, if it was called.
NoCollector == [answer |-> <<>>, limit |-> 0, called |-> FALSE, zfail |-> FALSE,
                returned |-> <<>>]

-----------------------------------------------------------------------------
(***************************************************************************)
(* sync_device (sync.py 570-844).                                          *)
(***************************************************************************)
\* The fields of device_data that sync_device reports as changed (727-783).
\* A value of "" or 0 in device_data stands for a key filtered out of it.
ChangesMade(dv, device_data, rack_name) ==
    LET top == {f \in {"name", "role", "status", "serial", "rack", "position"} :
                   /\ f \notin cfg.PROTECTED_FIELDS
                   /\ device_data[f] # (IF f = "position" THEN 0 ELSE "")
                   /\ dv[f] # device_data[f]}
        cf == IF "custom_fields" \in cfg.PROTECTED_FIELDS THEN {}
              ELSE {k \in {"cpu_model", "zabbix_hostid", "last_sync"} :
                       /\ k \notin cfg.PROTECTED_CUSTOM_FIELDS
                       /\ device_data.custom_fields[k] # (IF k = "last_sync" THEN NoDate ELSE "")
                       /\ dv.custom_fields[k] # device_data.custom_fields[k]}
        removed == IF rack_name = "" /\ dv.rack # "" THEN {"rack"} ELSE {}
    IN top \cup cf \cup removed

\* device.update(device_data) (787): every key of device_data is assigned and
\* PATCHed; custom fields are merged key by key.
ApplyUpdate(dv, device_data, rack_name) ==
    LET removeRack == rack_name = "" /\ dv.rack # ""
    IN [name |-> device_data.name,
        role |-> device_data.role,
        status |-> device_data.status,
        serial |-> IF device_data.serial # "" THEN device_data.serial ELSE dv.serial,
        rack |-> IF removeRack THEN ""
                 ELSE IF device_data.rack # "" THEN device_data.rack ELSE dv.rack,
        position |-> IF removeRack THEN 0
                     ELSE IF device_data.position # 0 THEN device_data.position
                     ELSE dv.position,
        primary_ip4 |-> dv.primary_ip4,
        custom_fields |->
            [zabbix_hostid |-> device_data.custom_fields.zabbix_hostid,
             cpu_model |-> IF device_data.custom_fields.cpu_model # ""
                           THEN device_data.custom_fields.cpu_model
                           ELSE dv.custom_fields.cpu_model,
             last_sync |-> device_data.custom_fields.last_sync,
             decommissioned_date |-> dv.custom_fields.decommissioned_date]]

\* devices.create(**device_data) (809)
NewDevice(device_data) ==
    [name |-> device_data.name, role |-> device_data.role,
     status |-> device_data.status, serial |-> device_data.serial,
     rack |-> device_data.rack, position |-> device_data.position,
     primary_ip4 |-> "",
     custom_fields |->
         [zabbix_hostid |-> device_data.custom_fields.zabbix_hostid,
          cpu_model |-> device_data.custom_fields.cpu_model,
          last_sync |-> device_data.custom_fields.last_sync,
          decommissioned_date |-> NoDate]]

\* setex of the hash key (798, 820)
SetHash(w, host_id) ==
    [w EXCEPT !.redis_hash =
        Put(@, host_id, [hash |-> calculate_host_hash(hosts[host_id]), set |-> today])]

\* What sync_device hands on from one stage to the next: the world, the local
\* variable device, is_new, and the call that raised ("" when none did).
Done(wx, ok, dev, is_new, raised) ==
    [w |-> wx, ok |-> ok, device |-> dev, is_new |-> is_new, raised |-> raised]

\* A rack stage that never looks for an occupant: what the rack properties
\* below must tell from RackConflict.
RackConflictUnchecked(w, h, qfail) == NoDevice

\* 640-664: the occupant of the record's rack position, if the check is on.
RackConflict(w, h, qfail) ==
    IF h.software_app_b # "" /\ h.location_lon # 0 /\ cfg.CHECK_RACK_CONFLICTS
    THEN check_rack_position_conflict(w.devices, h.software_app_b, h.location_lon,
                                      NoDevice, qfail)
    ELSE NoDevice

\* A rack stage that records no conflict: what the conflict property below
\* must tell from RackStage.
RackStageSilent(w, h, conflict_device) == w

\* 652-660: a conflict is recorded in the statistics.
RackStage(w, h, conflict_device) ==
    IF conflict_device # NoDevice
    THEN AddStat(w, "rack_conflicts",
                 [device |-> h.name, rack |-> h.software_app_b,
                  position |-> h.location_lon,
                  conflict_with |-> w.devices[conflict_device].name])
    ELSE w

\* 670-679: the role Server is created when NetBox has none (not in a dry run).
RoleStage(w) ==
    IF cfg.DRY_RUN THEN w ELSE [w EXCEPT !.device_roles = @ \cup {"Server"}]

\* 681-724: device_data. On a conflict neither rack nor position is assigned;
\* without a role (a dry run on a target that has none) the key is left out.
DeviceData(h, host_id, conflict_device) ==
    LET rack == IF conflict_device # NoDevice THEN "" ELSE h.software_app_b
    IN [name |-> h.name,
        role |-> IF cfg.DRY_RUN /\ "Server" \notin device_roles THEN "" ELSE "Server",
        status |-> IF h.status = "0" THEN "active" ELSE "offline",
        serial |-> h.serialno_a, rack |-> rack,
        position |-> IF rack # "" THEN h.location_lon ELSE 0,
        custom_fields |-> [cpu_model |-> h.hardware, zabbix_hostid |-> host_id,
                           last_sync |-> today]]

\* 793-800, 815-822: the fingerprint is stored right after the device write.
\* fail = "cache": setex raises.
CacheStage(wx, host_id, dev, is_new, fail) ==
    IF ~cfg.redis_client THEN Done(wx, TRUE, dev, is_new, "")
    ELSE IF fail = "cache" THEN Done(wx, FALSE, dev, is_new, "cache")
    ELSE Done(SetHash(wx, host_id), TRUE, dev, is_new, "")

\* An update stage that writes device_data whatever the diff says and stores
\* no fingerprint: what the idempotence property below must tell from
\* UpdateDevice.
UpdateDeviceBlindly(g, host_id, device_data, rack_name, fail) ==
    Done(AddCall([g.w EXCEPT !.devices[g.device] =
                     ApplyUpdate(g.w.devices[g.device], device_data, rack_name)],
                 "update", g.device),
         TRUE, g.device, FALSE, "")

\* 726-805: the device exists. fail = "write": device.update raises.
UpdateDevice(g, host_id, device_data, rack_name, fail) ==
    LET dv == g.w.devices[g.device]
        w2 == IF dv.status = "decommissioning" /\ device_data.status = "active"
              THEN AddStat(g.w, "recovered_hosts", device_data.name) ELSE g.w
    IN IF ChangesMade(dv, device_data, rack_name) = {} \/ cfg.DRY_RUN
       THEN Done(w2, TRUE, g.device, FALSE, "")
       ELSE IF fail = "write" THEN Done(w2, FALSE, g.device, FALSE, "write")
       ELSE CacheStage(
              AddStat(
                AddCall([w2 EXCEPT !.devices[g.device] =
                            ApplyUpdate(dv, device_data, rack_name)],
                        "update", g.device),
                "changed_hosts", device_data.name),
              host_id, g.device, FALSE, fail)

\* A create branch that does not test DRY_RUN: what the dry-run property
\* below must tell from CreateDevice.
create_in_dry_run(g, host_id, device_data, fail) ==
    IF fail = "write" THEN Done(g.w, FALSE, NoDevice, TRUE, "write")
    ELSE CacheStage(
           AddStat(
             AddCall([g.w EXCEPT !.devices = Put(@, g.w.nextId, NewDevice(device_data)),
                                 !.nextId = @ + 1],
                     "create", g.w.nextId),
             "new_hosts", device_data.name),
           host_id, g.w.nextId, TRUE, fail)

\* 806-826: no device was found. fail = "write": devices.create raises.
CreateDevice(g, host_id, device_data, fail) ==
    IF cfg.DRY_RUN THEN Done(g.w, TRUE, NoDevice, TRUE, "")
    ELSE IF fail = "write" THEN Done(g.w, FALSE, NoDevice, TRUE, "write")
    ELSE CacheStage(
           AddStat(
             AddCall([g.w EXCEPT !.devices = Put(@, g.w.nextId, NewDevice(device_data)),
                                 !.nextId = @ + 1],
                     "create", g.w.nextId),
             "new_hosts", device_data.name),
           host_id, g.w.nextId, TRUE, fail)

\* 726, 806: update or create.
UpsertStage(g, host_id, device_data, rack_name, fail) ==
    IF g.device # NoDevice /\ ~g.is_new
    THEN UpdateDevice(g, host_id, device_data, rack_name, fail)
    ELSE CreateDevice(g, host_id, device_data, fail)

\* 828-830: the address stage; r is what sync_ip_address answered.
IpResult(u, r, fail) ==
    IF r.raised THEN Done(r.w, FALSE, u.device, u.is_new, fail)
    ELSE Done(r.w, TRUE, u.device, u.is_new, "")

IpStage(u, primary_ip, fail) ==
    IF u.raised # "" \/ primary_ip = "" \/ u.device = NoDevice THEN u
    ELSE IpResult(u, sync_ip_address(u.w, primary_ip, u.device, fail), fail)

\* 834-844: except Exception. interface and ip_address are still None there,
\* sync_ip_address having raised before it returned them.
ExceptStage(u, host_name, rbFail) ==
    IF u.raised = "" THEN u
    ELSE [u EXCEPT !.w = rollback_device_creation(
                            AddError(u.w, host_name, u.raised),
                            u.device, host_name, NoDevice, "", rbFail)]

\* 699-844 for a valid record whose site, manufacturer and type resolved.
SyncStages(w, host_id, h, conflict_device, lk, fail, rbFail) ==
    ExceptStage(
      IpStage(
        UpsertStage(
          get_or_create_device(RoleStage(RackStage(w, h, conflict_device)),
                               host_id, h.name, lk),
          host_id, DeviceData(h, host_id, conflict_device), h.software_app_b, fail),
        h.ip, fail),
      h.name, rbFail)

\* sync_device(host_data). fail names the remote call whose exception ends
\* the handler, if the handler reaches it: "dep" (site, manufacturer or device
\* type not resolved: return False), "write" (devices.create or
\* device.update), "cache" (setex), "iface", "ip", "primary" (see
\* sync_ip_address). lk: a raise caught inside get_or_create_device. qfail:
\* the rack occupant query raises (caught). rbFail: see rollback.
sync_device(w, host_id, lk, fail, rbFail, qfail) ==
    IF ~validate_host_data(host_id, hosts[host_id])
    THEN Done(AddStat(w, "skipped_hosts", hosts[host_id].name), FALSE, NoDevice, FALSE, "")
    ELSE IF fail = "dep"
    THEN Done(AddError(w, hosts[host_id].name, "unresolved"), FALSE, NoDevice,
              FALSE, "")
    ELSE SyncStages(w, host_id, hosts[host_id],
                    RackConflict(w, hosts[host_id], qfail), lk, fail, rbFail)

-----------------------------------------------------------------------------
(***************************************************************************)
(* The lifecycle pass (sync.py 229-335). Its world adds the last-seen      *)
(* store and whether an exception has ended the pass (281).                *)
(***************************************************************************)
\* 242-258, 270-271: the pass keeps the devices whose role is one of the
\* managed roles that NetBox has; when NetBox has none of them (role_ids is
\* empty) the pass does not filter.
IsManaged(dv) ==
    LET role_ids == MANAGED_DEVICE_ROLES \cap device_roles
    IN role_ids # {} => dv.role \in role_ids

\* Two variants of _mark_as_decommissioning that the timing properties below
\* must tell from it: one marks at the threshold (>= for >), one marks a
\* device on its first absence.
mark_at_threshold(lw, d, zabbix_hostid, lfail) ==
    IF zabbix_hostid \in DOMAIN lw.lastseen
    THEN IF today - lw.lastseen[zabbix_hostid] >= DECOMMISSION_AFTER_DAYS /\ ~cfg.DRY_RUN
         THEN [lw EXCEPT !.devices[d].status = "decommissioning",
                         !.devices[d].custom_fields.decommissioned_date = today]
         ELSE lw
    ELSE [lw EXCEPT !.lastseen = Put(@, zabbix_hostid, today)]

mark_on_first_absence(lw, d, zabbix_hostid, lfail) ==
    IF cfg.DRY_RUN THEN lw
    ELSE [lw EXCEPT !.devices[d].status = "decommissioning",
                    !.devices[d].custom_fields.decommissioned_date = today,
                    !.lastseen = Put(@, zabbix_hostid, today)]

\* sync.py _mark_as_decommissioning. lfail: the device whose save() raises.
mark_as_decommissioning(lw, d, zabbix_hostid, lfail) ==
    IF zabbix_hostid \in DOMAIN lw.lastseen
    THEN LET days_inactive == today - lw.lastseen[zabbix_hostid]
         IN IF days_inactive > DECOMMISSION_AFTER_DAYS
            THEN IF cfg.DRY_RUN
                 THEN AddStat(lw, "decommissioned_hosts", lw.devices[d].name)
                 ELSE IF lfail = d THEN [lw EXCEPT !.aborted = TRUE]
                 ELSE AddStat(
                        AddCall([lw EXCEPT
                                   !.devices[d].status = "decommissioning",
                                   !.devices[d].custom_fields.decommissioned_date = today],
                                "update", d),
                        "decommissioned_hosts", lw.devices[d].name)
            ELSE lw
    ELSE [lw EXCEPT !.lastseen = Put(@, zabbix_hostid, today)]

\* A variant of _check_for_deletion that deletes at the threshold (>= for >):
\* what the deletion property below must tell from it.
delete_at_threshold(lw, d, lfail) ==
    LET decommissioned_date == lw.devices[d].custom_fields.decommissioned_date
    IN IF decommissioned_date # NoDate
          /\ today - decommissioned_date >= DELETE_AFTER_DECOMMISSION_DAYS
          /\ ~cfg.DRY_RUN
       THEN AddStat(DeleteDevice(lw, d), "deleted_hosts", lw.devices[d].name)
       ELSE lw

\* sync.py _check_for_deletion. A raise of device.delete() is caught inside;
\* a raise of the save() that stamps a missing date is not.
check_for_deletion(lw, d, lfail) ==
    LET decommissioned_date == lw.devices[d].custom_fields.decommissioned_date
    IN IF decommissioned_date = NoDate
       THEN IF cfg.DRY_RUN THEN lw
            ELSE IF lfail = d THEN [lw EXCEPT !.aborted = TRUE]
            ELSE AddCall([lw EXCEPT
                            !.devices[d].custom_fields.decommissioned_date = today],
                         "update", d)
       ELSE LET days_in_decommissioning == today - decommissioned_date
            IN IF days_in_decommissioning > DELETE_AFTER_DECOMMISSION_DAYS
                  /\ ~cfg.DRY_RUN /\ lfail # d
               THEN AddStat(DeleteDevice(lw, d), "deleted_hosts", lw.devices[d].name)
               ELSE lw

\* The loop of 260-263 over the devices ds (a sequence of ids).
RECURSIVE MarkLoop(_, _, _, _)
MarkLoop(lw, ds, active_host_ids, lfail) ==
    IF ds = <<>> \/ lw.aborted THEN lw
    ELSE LET d == Head(ds)
             zabbix_hostid == lw.devices[d].custom_fields.zabbix_hostid
             lw1 == IF zabbix_hostid # "" /\ zabbix_hostid \notin active_host_ids
                    THEN mark_as_decommissioning(lw, d, zabbix_hostid, lfail)
                    ELSE lw
         IN MarkLoop(lw1, Tail(ds), active_host_ids, lfail)

\* The loop of 273-274.
RECURSIVE DeleteLoop(_, _, _)
DeleteLoop(lw, ds, lfail) ==
    IF ds = <<>> \/ lw.aborted THEN lw
    ELSE DeleteLoop(check_for_deletion(lw, Head(ds), lfail), Tail(ds), lfail)

\* sync.py check_decommissioned_devices. zfail: the Zabbix call of its own
\* get_vmware_hosts raises (and yields no host).
check_decommissioned_devices(lw, zfail, lfail) ==
    IF ~cfg.redis_client THEN lw
    ELSE
    LET hs == get_vmware_hosts(zfail)
        active_host_ids == Range(hs)
        netbox_devices ==
            SortedSeq({d \in DOMAIN lw.devices :
                          /\ lw.devices[d].custom_fields.zabbix_hostid # ""
                          /\ lw.devices[d].status = "active"
                          /\ IsManaged(lw.devices[d])})
        lw1 == MarkLoop(lw, netbox_devices, active_host_ids, lfail)
        decommissioning_devices ==
            SortedSeq({d \in DOMAIN lw1.devices :
                          /\ lw1.devices[d].status = "decommissioning"
                          /\ IsManaged(lw1.devices[d])})
        lw2 == IF cfg.ENABLE_PHYSICAL_DELETION
               THEN DeleteLoop(lw1, decommissioning_devices, lfail)
               ELSE lw1
    IN IF lw2.aborted THEN lw2
       ELSE [lw2 EXCEPT !.lastseen =
                [id \in (DOMAIN @) \cup active_host_ids |->
                    IF id \in active_host_ids THEN today ELSE @[id]]]

LifeWorld(w) ==
    [devices |-> w.devices, interfaces |-> w.interfaces,
     ip_addresses |-> w.ip_addresses, lastseen |-> lastseen,
     stats |-> w.stats, calls |-> w.calls, aborted |-> FALSE]

-----------------------------------------------------------------------------
(***************************************************************************)
(* Initial states.                                                         *)
(***************************************************************************)
EmptyFn == [x \in {} |-> 0]

Host(name, present, ip) ==
    [present |-> present, name |-> name, status |-> "0", inventory |-> TRUE,
     hardware |-> "c1", serialno_a |-> "s1", ip |-> ip,
     software_app_b |-> "", location_lat |-> "", location_lon |-> 0]

DefaultCfg ==
    [DRY_RUN |-> FALSE, redis_client |-> TRUE, HOST_LIMIT |-> 0,
     CHECK_RACK_CONFLICTS |-> TRUE, ORPHANED_IP_ACTION |-> "deprecated",
     ENABLE_PHYSICAL_DELETION |-> FALSE,
     PROTECTED_FIELDS |-> {}, PROTECTED_CUSTOM_FIELDS |-> {}]

ProtectingCfg ==
    [DefaultCfg EXCEPT !.PROTECTED_FIELDS = {"serial"},
                       !.PROTECTED_CUSTOM_FIELDS = {"cpu_model"}]

\* last: the handler (op), the record it was given (hostid), its local device
\* and is_new, what it returned (ok), the call that raised, the rollback steps
\* that raised, whether the lifecycle pass was aborted, the records whose
\* Redis read raised in check_changes (cacheErr), whether the Zabbix call of
\* get_vmware_hosts raised (zfail), and the write calls, addresses, devices,
\* interfaces, last-seen store and statistics as they were when the handler
\* started, and whether the site, manufacturer or type of the record did not
\* resolve (dep).
NoLast ==
    [op |-> "", hostid |-> "", device |-> NoDevice, is_new |-> FALSE,
     ok |-> TRUE, raised |-> "", rbFail |-> {}, aborted |-> FALSE,
     cacheErr |-> {}, zfail |-> FALSE, calls |-> {}, ip_addresses |-> EmptyFn,
     devices |-> EmptyFn, interfaces |-> {}, lastseen |-> EmptyFn,
     stats |-> EmptyStats, dep |-> FALSE]

\* hist: the day of the current run and of the one before, the records edited
\* (dirty) and the cache keys expired (expired) since the current run started,
\* whether the current run started on an unedited source (same) and on a cache
\* that lost no key (kept), the records that raised and whether any call
\* raised in the two runs, the devices at the start of the current run, the
\* number of lifecycle passes of the current run, the records for which
\* sync_device has returned in the current run (synced), and per record the
\* number of rename events recorded since the record was last edited.
NoHist ==
    [runDay |-> NoDate, prevDay |-> NoDate, dirty |-> {}, same |-> FALSE,
     expired |-> {}, kept |-> FALSE, passes |-> 0, synced |-> <<>>,
     renames |-> [id \in HostIds |-> 0],
     curErr |-> {}, prevErr |-> {}, curFail |-> FALSE, prevFail |-> FALSE,
     startDevs |-> {}]

\* The day of the first state: the calendar has room for one more day.
InitDay == MaxDay - 1

DryRunCfg == [DefaultCfg EXCEPT !.DRY_RUN = TRUE]

\* A device that an operator created by hand, or that was synced for a host
\* which Zabbix has since registered again under another hostid.
LegacyDevice(name, hostid) ==
    [name |-> name, role |-> "Other", status |-> "active", serial |-> "s2",
     rack |-> "", position |-> 0, primary_ip4 |-> "",
     custom_fields |-> [zabbix_hostid |-> hostid, cpu_model |-> "c2",
                        last_sync |-> NoDate, decommissioned_date |-> NoDate]]

\* The device of a host as sync_device leaves it on day last_sync, in the
\* given status and with the given decommissioned_date.
SyncedDevice(id, name, ip, status, date, last_sync) ==
    [name |-> name, role |-> "Server", status |-> status,
     serial |-> "s1", rack |-> "", position |-> 0, primary_ip4 |-> ip,
     custom_fields |-> [zabbix_hostid |-> id, cpu_model |-> "c1",
                        last_sync |-> last_sync, decommissioned_date |-> date]]

InitProcess ==
    /\ today = InitDay
    /\ redis_hash = EmptyFn
    /\ stats = EmptyStats
    /\ phase = "idle"
    /\ queue = <<>>
    /\ classified = [new |-> {}, changed |-> {}]
    /\ calls = {}
    /\ last = NoLast
    /\ edits = 0
    /\ runs = 0
    /\ faults = 0
    /\ hist = NoHist

\* The sync path takes the outcome of manufacturer and device type resolution
\* as an input of sync_device (fail = "dep"); the catalog stays as it is there.
InitCommon ==
    /\ InitProcess
    /\ catalog = NoCatalog
    /\ fingerprint = NoFingerprint
    /\ collector = NoCollector

\* An empty target.
InitFresh ==
    /\ hosts = [id \in HostIds |->
                  IF id = "h1" THEN Host("a", TRUE, "ip1") ELSE Host("b", TRUE, "ip2")]
    /\ devices = EmptyFn
    /\ device_roles = {devices[d].role : d \in DOMAIN devices}
    /\ nextId = 1
    /\ interfaces = {}
    /\ ip_addresses = EmptyFn
    /\ lastseen = EmptyFn

\* A target that holds a device named like host h1, without a hostid or with
\* the hostid of another host.
InitLegacy ==
    /\ hosts = [id \in HostIds |->
                  IF id = "h1" THEN Host("a", TRUE, "ip1") ELSE Host("b", FALSE, "ip2")]
    /\ \E hostid \in {"", "h0"} : devices = [d \in {1} |-> LegacyDevice("a", hostid)]
    /\ device_roles = {devices[d].role : d \in DOMAIN devices}
    /\ nextId = 2
    /\ interfaces = {}
    /\ ip_addresses = EmptyFn
    /\ lastseen = EmptyFn

\* A target that holds two devices of that name (in two other sites).
InitTwins ==
    /\ hosts = [id \in HostIds |->
                  IF id = "h1" THEN Host("a", TRUE, "ip1") ELSE Host("b", FALSE, "ip2")]
    /\ devices = [d \in {1, 2} |-> LegacyDevice("a", "")]
    /\ device_roles = {devices[d].role : d \in DOMAIN devices}
    /\ nextId = 3
    /\ interfaces = {}
    /\ ip_addresses = EmptyFn
    /\ lastseen = EmptyFn

\* Host h1 synced earlier today; the cache has lost its keys since.
InitSynced ==
    /\ hosts = [id \in HostIds |->
                  IF id = "h1" THEN Host("a", TRUE, "ip1") ELSE Host("b", FALSE, "ip2")]
    /\ devices = [d \in {1} |->
                    SyncedDevice("h1", "a", "ip1", "active", NoDate, InitDay)]
    /\ device_roles = {devices[d].role : d \in DOMAIN devices}
    /\ nextId = 2
    /\ interfaces = {1}
    /\ ip_addresses = [a \in {"ip1"} |-> [assigned |-> 1, status |-> "active"]]
    /\ lastseen = [id \in {"h1"} |-> InitDay]

\* Both hosts synced; h1 has left the source, and the lifecycle pass has seen
\* it absent either never or yesterday.
InitAbsent ==
    /\ hosts = [id \in HostIds |->
                  IF id = "h1" THEN Host("a", FALSE, "ip1") ELSE Host("b", TRUE, "ip2")]
    /\ devices = [d \in {1, 2} |->
                    IF d = 1
                    THEN SyncedDevice("h1", "a", "ip1", "active", NoDate, InitDay - 2)
                    ELSE SyncedDevice("h2", "b", "ip2", "active", NoDate, InitDay - 1)]
    /\ device_roles = {devices[d].role : d \in DOMAIN devices}
    /\ nextId = 3
    /\ interfaces = {1, 2}
    /\ ip_addresses = [a \in {"ip1", "ip2"} |->
                         [assigned |-> IF a = "ip1" THEN 1 ELSE 2, status |-> "active"]]
    /\ \E seen \in {{}, {"h1"}} :
          lastseen = [id \in seen \cup {"h2"} |-> InitDay - 1]

\* As InitAbsent, after the lifecycle pass of yesterday marked the device of h1.
InitDecommissioned ==
    /\ hosts = [id \in HostIds |->
                  IF id = "h1" THEN Host("a", FALSE, "ip1") ELSE Host("b", TRUE, "ip2")]
    /\ devices = [d \in {1, 2} |->
                    IF d = 1
                    THEN SyncedDevice("h1", "a", "ip1", "decommissioning",
                                      InitDay - 1, InitDay - 2)
                    ELSE SyncedDevice("h2", "b", "ip2", "active", NoDate, InitDay - 1)]
    /\ device_roles = {devices[d].role : d \in DOMAIN devices}
    /\ nextId = 3
    /\ interfaces = {1, 2}
    /\ ip_addresses = [a \in {"ip1", "ip2"} |->
                         [assigned |-> IF a = "ip1" THEN 1 ELSE 2, status |-> "active"]]
    /\ lastseen = [id \in HostIds |-> IF id = "h1" THEN InitDay - 2 ELSE InitDay - 1]

DeletingCfg == [DefaultCfg EXCEPT !.ENABLE_PHYSICAL_DELETION = TRUE]

\* A target that another project fills: two devices of another role carry a
\* zabbix_hostid that is not in the source, one active and last seen
\* yesterday, one decommissioning since yesterday. NetBox has the role Server
\* or not. The one source record has no inventory or no name, so sync_device
\* skips it. Or the second device is a server that an operator entered by
\* hand, without a zabbix_hostid, and has put in decommissioning.
InitForeign ==
    /\ \E invalid \in {[Host("a", TRUE, "ip1") EXCEPT !.inventory = FALSE],
                        Host("", TRUE, "ip1")} :
          hosts = [id \in HostIds |->
                     IF id = "h1" THEN invalid ELSE Host("b", FALSE, "ip2")]
    /\ \E second \in {LegacyDevice("b", "h9"),
                       [LegacyDevice("b", "") EXCEPT !.role = "Server"]} :
          devices = [d \in {1, 2} |->
                       IF d = 1 THEN LegacyDevice("c", "h0")
                       ELSE [second EXCEPT
                               !.status = "decommissioning",
                               !.custom_fields.decommissioned_date = InitDay - 1]]
    /\ \E roles \in {{"Other"}, {"Other", "Server"}} :
          /\ {devices[d].role : d \in DOMAIN devices} \subseteq roles
          /\ device_roles = roles
    /\ nextId = 3
    /\ interfaces = {}
    /\ ip_addresses = EmptyFn
    /\ lastseen = [id \in {"h0"} |-> InitDay - 1]

\* A source record that names rack r1 and a unit of it.
RackedHost(name, ip, unit) ==
    [Host(name, TRUE, ip) EXCEPT !.software_app_b = "r1", !.location_lon = unit]

\* Two records that have no device yet name rack r1; the second names the
\* unit of the first, or a unit that is no number (0).
InitRackFree ==
    /\ \E unit \in {0, 1} :
          hosts = [id \in HostIds |->
                     IF id = "h1" THEN RackedHost("a", "ip1", 1)
                     ELSE RackedHost("b", "ip2", unit)]
    /\ devices = EmptyFn
    /\ device_roles = {}
    /\ nextId = 1
    /\ interfaces = {}
    /\ ip_addresses = EmptyFn
    /\ lastseen = EmptyFn

\* Host h1 was synced earlier today into rack r1, unit 1, and the cache has
\* lost its keys since; the record of h2 has no device yet, and may not be
\* in the filtered source set yet.
InitRacked ==
    /\ \E unit \in {1, 2}, present \in BOOLEAN :
          hosts = [id \in HostIds |->
                     IF id = "h1" THEN RackedHost("a", "ip1", 1)
                     ELSE [RackedHost("b", "ip2", unit) EXCEPT !.present = present]]
    /\ devices = [d \in {1} |->
                    [SyncedDevice("h1", "a", "ip1", "active", NoDate, InitDay)
                       EXCEPT !.rack = "r1", !.position = 1]]
    /\ device_roles = {"Server"}
    /\ nextId = 2
    /\ interfaces = {1}
    /\ ip_addresses = [a \in {"ip1"} |-> [assigned |-> 1, status |-> "active"]]
    /\ lastseen = [id \in {"h1"} |-> InitDay]

\* The upsert pass on a target it has not written before.
Init ==
    /\ InitCommon
    /\ cfg \in {DefaultCfg, ProtectingCfg}
    /\ InitFresh \/ InitLegacy \/ InitTwins \/ InitSynced

\* The engine on a target it has synced, with a host gone from the source.
InitLifecycle ==
    /\ InitCommon
    /\ cfg \in {DefaultCfg, DryRunCfg}
    /\ InitAbsent \/ InitDecommissioned

\* config.py HOST_LIMIT = 1: the collector hands on the first record only.
CappedCfg == [DefaultCfg EXCEPT !.HOST_LIMIT = 1]

\* Both hosts synced without a record cap, then the cap configured; h1 has
\* left the source, and comes back before h2 in source order.
InitCapped ==
    /\ InitCommon
    /\ cfg = CappedCfg
    /\ InitAbsent

\* Dry and real runs on a target that holds a device entered by hand and no
\* role Server, and on one that holds the device of a host that has left the
\* source; the cache is empty.
InitDryRun ==
    /\ InitCommon
    /\ cfg \in {DefaultCfg, DryRunCfg}
    /\ InitLegacy \/ InitAbsent

\* config.py ORPHANED_IP_ACTION = delete, keep
DeletingIpCfg == [DefaultCfg EXCEPT !.ORPHANED_IP_ACTION = "delete"]

KeepingIpCfg == [DefaultCfg EXCEPT !.ORPHANED_IP_ACTION = "keep"]

\* Host h1 was synced under the address ip3 and has the address ip1 now; ip1
\* is not in the target yet, or is there unassigned and deprecated.
InitReaddressed ==
    /\ hosts = [id \in HostIds |->
                  IF id = "h1" THEN Host("a", TRUE, "ip1") ELSE Host("b", FALSE, "ip2")]
    /\ devices = [d \in {1} |->
                    SyncedDevice("h1", "a", "ip3", "active", NoDate, InitDay)]
    /\ device_roles = {"Server"}
    /\ nextId = 2
    /\ interfaces = {1}
    /\ \E known \in BOOLEAN :
          ip_addresses = [a \in (IF known THEN {"ip1", "ip3"} ELSE {"ip3"}) |->
                            IF a = "ip3" THEN [assigned |-> 1, status |-> "active"]
                            ELSE [assigned |-> NoDevice, status |-> "deprecated"]]
    /\ lastseen = [id \in {"h1"} |-> InitDay]

\* Host h2 has left the source and its device still holds ip2 as primary
\* address; host h1, synced under ip3, has been given ip2.
InitReused ==
    /\ hosts = [id \in HostIds |->
                  IF id = "h1" THEN Host("a", TRUE, "ip2") ELSE Host("b", FALSE, "ip2")]
    /\ devices = [d \in {1, 2} |->
                    IF d = 1
                    THEN SyncedDevice("h1", "a", "ip3", "active", NoDate, InitDay)
                    ELSE SyncedDevice("h2", "b", "ip2", "active", NoDate, InitDay)]
    /\ device_roles = {"Server"}
    /\ nextId = 3
    /\ interfaces = {1, 2}
    /\ ip_addresses = [a \in {"ip2", "ip3"} |->
                         [assigned |-> IF a = "ip3" THEN 1 ELSE 2, status |-> "active"]]
    /\ lastseen = [id \in HostIds |-> InitDay]

\* config.py CHECK_RACK_CONFLICTS = false
UncheckedCfg == [DefaultCfg EXCEPT !.CHECK_RACK_CONFLICTS = FALSE]

\* The upsert pass over records that name rack positions, conflict checking
\* on or off.
InitRack ==
    /\ InitCommon
    /\ \/ cfg = DefaultCfg /\ (InitRackFree \/ InitRacked)
       \/ cfg = UncheckedCfg /\ InitRacked

\* The upsert pass on a device whose primary address changed, under each
\* policy for the old address, to an address that is new, unassigned or the
\* primary address of another device.
InitAddress ==
    /\ InitCommon
    /\ \/ cfg \in {DefaultCfg, DeletingIpCfg, KeepingIpCfg} /\ InitReaddressed
       \/ cfg = DefaultCfg /\ InitReused

\* The lifecycle pass with physical deletion enabled or not, on a target with
\* a decommissioning device of its own or with devices of another project.
InitScope ==
    /\ InitCommon
    /\ cfg \in {DefaultCfg, DeletingCfg}
    /\ InitDecommissioned \/ InitForeign

-----------------------------------------------------------------------------
(***************************************************************************)
(* run_sync (sync.py 1028-1105), one action per step of it.                *)
(***************************************************************************)
LookupFails == {"none", "lookup", "gsave"}
Fails == {"none", "dep", "write", "cache", "iface", "release", "ip", "primary"}
RbFails == {{}, {"device"}}

\* 1036-1051: collect, classify, build the work list. An empty collection
\* ends the run at 1040, before the lifecycle pass.
RunSync(zfail, cacheErr) ==
    /\ phase = "idle"
    /\ runs < MaxRuns
    /\ LET hs == get_vmware_hosts(zfail)
           cc == check_changes(hs, cacheErr)
       IN /\ cacheErr \subseteq Range(hs)
          /\ cacheErr # {} => cfg.redis_client
          /\ faults' = faults + Cost(zfail) + Cardinality(cacheErr)
          /\ faults' <= MaxFaults
          /\ IF hs = <<>>
             THEN /\ phase' = "idle"
                  /\ queue' = <<>>
                  /\ classified' = [new |-> {}, changed |-> {}]
             ELSE /\ phase' = "upsert"
                  /\ queue' = cc[1] \o cc[2]
                  /\ classified' = [new |-> Range(cc[1]), changed |-> Range(cc[2])]
          /\ hist' = [runDay |-> today, prevDay |-> hist.runDay, dirty |-> {},
                      same |-> (runs > 0 /\ hist.dirty = {}),
                      expired |-> {},
                      kept |-> (runs > 0 /\ hist.expired = {}),
                      passes |-> 0,
                      synced |-> <<>>,
                      renames |-> hist.renames,
                      curErr |-> {}, prevErr |-> hist.curErr,
                      curFail |-> (zfail \/ cacheErr # {}),
                      prevFail |-> hist.curFail,
                      startDevs |-> DOMAIN devices]
    /\ stats' = EmptyStats
    /\ calls' = {}
    /\ last' = [NoLast EXCEPT !.op = "run_sync", !.cacheErr = cacheErr,
                              !.zfail = zfail]
    /\ runs' = runs + 1
    /\ UNCHANGED <<today, hosts, devices, device_roles, nextId, interfaces,
                   ip_addresses, redis_hash, lastseen, cfg, edits, catalog,
                   fingerprint, collector>>

\* 1054-1059: sync_device of the next record of the work list. A compensating
\* step that raises in the rollback belongs to the fault that started the
\* rollback; it is taken only where it changes what the rollback does.
SyncDevice(lk, fail, rbFail, qfail) ==
    /\ phase = "upsert"
    /\ queue # <<>>
    /\ LET id == Head(queue)
           r == sync_device(World, id, lk, fail, rbFail, qfail)
           r0 == sync_device(World, id, "none", "none", {}, FALSE)
           cost == Cost(lk # "none") + Cost(fail # "none") + Cost(qfail)
       IN /\ r.w.nextId <= MaxDevId + 1
          /\ faults' = faults + cost
          /\ faults' <= MaxFaults
          /\ cost > 0 => r # r0
          /\ rbFail # {} => r # sync_device(World, id, lk, fail, {}, qfail)
          /\ devices' = r.w.devices
          /\ device_roles' = r.w.device_roles
          /\ nextId' = r.w.nextId
          /\ interfaces' = r.w.interfaces
          /\ ip_addresses' = r.w.ip_addresses
          /\ redis_hash' = r.w.redis_hash
          /\ stats' = r.w.stats
          /\ calls' = r.w.calls
          /\ last' = [op |-> "sync_device", hostid |-> id, device |-> r.device,
                      is_new |-> r.is_new, ok |-> r.ok, raised |-> r.raised,
                      rbFail |-> IF r.raised # "" THEN rbFail ELSE {},
                      aborted |-> FALSE, cacheErr |-> {}, zfail |-> FALSE,
                      calls |-> calls, ip_addresses |-> ip_addresses,
                      devices |-> devices,
                      interfaces |-> interfaces, lastseen |-> lastseen,
                      stats |-> stats,
                      dep |-> (fail = "dep" /\ validate_host_data(id, hosts[id]))]
          /\ hist' = [hist EXCEPT
                        !.curErr = IF r.raised # "" THEN @ \cup {id} ELSE @,
                        !.curFail = @ \/ r # r0,
                        !.synced = Append(@, id),
                        !.renames[id] = @ + Len(r.w.stats.renamed_hosts)
                                          - Len(stats.renamed_hosts)]
    /\ queue' = Tail(queue)
    /\ UNCHANGED <<today, hosts, lastseen, cfg, phase, classified, edits, runs,
                   catalog, fingerprint, collector>>

\* main.py 219-223: the exit code of a run that returned its statistics.
exit_code(st) == IF st.error_hosts # <<>> THEN 2 ELSE 0

\* A run that does not wait for the work list to be empty: what the ordering
\* property below must tell from UpsertPassDone.
UpsertPassCut(q) == TRUE

\* 1054-1059: the two for loops have handed every record of all_hosts to
\* sync_device.
UpsertPassDone(q) == q = <<>>

\* 1061-1063: the lifecycle pass, then the run returns.
CheckDecommissionedDevices(zfail, lfail) ==
    /\ phase = "upsert"
    /\ UpsertPassDone(queue)
    /\ LET lw == check_decommissioned_devices(LifeWorld(World), zfail, lfail)
           lw0 == check_decommissioned_devices(LifeWorld(World), FALSE, NoDevice)
           cost == Cost(zfail) + Cost(lfail # NoDevice)
       IN /\ faults' = faults + cost
          /\ faults' <= MaxFaults
          /\ cost > 0 => lw # lw0
          /\ devices' = lw.devices
          /\ interfaces' = lw.interfaces
          /\ ip_addresses' = lw.ip_addresses
          /\ lastseen' = lw.lastseen
          /\ stats' = lw.stats
          /\ calls' = lw.calls
          /\ last' = [NoLast EXCEPT !.op = "lifecycle", !.aborted = lw.aborted,
                                    !.zfail = zfail,
                                    !.devices = devices, !.interfaces = interfaces,
                                    !.ip_addresses = ip_addresses,
                                    !.lastseen = lastseen]
          /\ hist' = [hist EXCEPT !.curFail = @ \/ lw # lw0, !.passes = @ + 1]
    /\ phase' = "idle"
    /\ UNCHANGED <<today, hosts, device_roles, nextId, redis_hash, cfg, queue,
                   classified, edits, runs, catalog, fingerprint,
                   collector>>

-----------------------------------------------------------------------------
(***************************************************************************)
(* The environment, between runs: the calendar, Redis expiry (setex with   *)
(* REDIS_TTL), and edits of the Zabbix inventory.                          *)
(***************************************************************************)
EnvUnchanged ==
    /\ last' = NoLast
    /\ UNCHANGED <<devices, device_roles, nextId, interfaces, ip_addresses, lastseen,
                   cfg, stats, phase, queue, classified, calls, runs, faults,
                   catalog, fingerprint, collector>>

\* A key set on day d lives on day d, may or may not live on day d + REDIS_TTL,
\* and is gone after it.
AdvanceDay ==
    /\ phase = "idle"
    /\ today < MaxDay
    /\ today' = today + 1
    /\ redis_hash' = Restrict(redis_hash,
                        {id \in DOMAIN redis_hash :
                            today + 1 - redis_hash[id].set <= REDIS_TTL})
    /\ hist' = [hist EXCEPT !.expired = @ \cup (DOMAIN redis_hash \ DOMAIN redis_hash')]
    /\ UNCHANGED <<hosts, edits>>
    /\ EnvUnchanged

ExpireKey(id) ==
    /\ phase = "idle"
    /\ id \in DOMAIN redis_hash
    /\ today - redis_hash[id].set >= REDIS_TTL
    /\ redis_hash' = Restrict(redis_hash, DOMAIN redis_hash \ {id})
    /\ hist' = [hist EXCEPT !.expired = @ \cup {id}]
    /\ UNCHANGED <<today, hosts, edits>>
    /\ EnvUnchanged

Edit(id, h) ==
    /\ phase = "idle"
    /\ edits < MaxEdits
    /\ hosts' = [hosts EXCEPT ![id] = h]
    /\ edits' = edits + 1
    /\ hist' = [hist EXCEPT !.dirty = @ \cup {id}, !.renames[id] = 0]
    /\ UNCHANGED <<today, redis_hash>>
    /\ EnvUnchanged

NameFree(id, n) == \A o \in HostIds \ {id} : hosts[o].present => hosts[o].name # n

RenameHost(id, n) ==
    /\ hosts[id].present
    /\ n # hosts[id].name
    /\ NameFree(id, n)
    /\ Edit(id, [hosts[id] EXCEPT !.name = n])

RemoveHost(id) ==
    /\ hosts[id].present
    /\ Edit(id, [hosts[id] EXCEPT !.present = FALSE])

\* A host comes (back) into the filtered source set, under a free name.
AddHost(id, n) ==
    /\ ~hosts[id].present
    /\ NameFree(id, n)
    /\ Edit(id, [hosts[id] EXCEPT !.present = TRUE, !.name = n])

SetStatus(id) ==
    /\ hosts[id].present
    /\ Edit(id, [hosts[id] EXCEPT !.status = IF @ = "0" THEN "1" ELSE "0"])

SetInventory(id, cpu, serial) ==
    /\ hosts[id].present
    /\ <<cpu, serial>> # <<hosts[id].hardware, hosts[id].serialno_a>>
    /\ Edit(id, [hosts[id] EXCEPT !.hardware = cpu, !.serialno_a = serial])

Environment ==
    \/ AdvanceDay
    \/ \E id \in HostIds : ExpireKey(id)
    \/ \E id \in HostIds, n \in HostNames : RenameHost(id, n)
    \/ \E id \in HostIds : RemoveHost(id)
    \/ \E id \in HostIds, n \in HostNames : AddHost(id, n)
    \/ \E id \in HostIds : SetStatus(id)
    \/ \E id \in HostIds, cpu \in CpuValues, serial \in SerialValues :
          SetInventory(id, cpu, serial)

Engine ==
    \/ \E zfail \in BOOLEAN, cacheErr \in SUBSET HostIds : RunSync(zfail, cacheErr)
    \/ \E lk \in LookupFails, fail \in Fails, rbFail \in RbFails, qfail \in BOOLEAN :
          SyncDevice(lk, fail, rbFail, qfail)
    \/ \E zfail \in BOOLEAN, lfail \in {NoDevice} \cup DevIds :
          CheckDecommissionedDevices(zfail, lfail)

Next == Engine \/ Environment

Spec == Init /\ [][Next]_vars

SpecLifecycle == InitLifecycle /\ [][Next]_vars

SpecScope == InitScope /\ [][Next]_vars

SpecRack == InitRack /\ [][Next]_vars

SpecAddress == InitAddress /\ [][Next]_vars

SpecCapped == InitCapped /\ [][Next]_vars

SpecDryRun == InitDryRun /\ [][Next]_vars

(***************************************************************************)
(* The catalog calls on their own: any sequence of ensure_manufacturer and *)
(* ensure_device_type, each with a lookup or a create that may raise.      *)
(***************************************************************************)
CatalogUnchanged ==
    UNCHANGED <<today, hosts, devices, device_roles, nextId, interfaces,
                ip_addresses, redis_hash, lastseen, cfg, stats, phase, queue,
                classified, calls, last, edits, runs, faults, fingerprint,
                collector, hist>>

\* A raise that is injected is one that the call meets.
EnsureManufacturer(vendor, fail) ==
    /\ catalog.n < MaxCalls
    /\ LET r == ensure_manufacturer(catalog, cfg.DRY_RUN, vendor, fail)
           r0 == ensure_manufacturer(catalog, cfg.DRY_RUN, vendor, "none")
       IN /\ fail # "none" => r # r0
          /\ catalog' = [r.c EXCEPT !.n = @ + 1]
    /\ CatalogUnchanged

\* The manufacturer handed in is one an earlier ensure_manufacturer returned
\* (an object of the target, or the stand-in of a dry run), or None.
EnsureDeviceType(model, manufacturer, hardware, fail) ==
    /\ catalog.n < MaxCalls
    /\ \/ manufacturer \in catalog.manufacturers \cup {""}
       \/ cfg.DRY_RUN
    /\ LET r == ensure_device_type(catalog, cfg.DRY_RUN, model, manufacturer,
                                   hardware, fail)
           r0 == ensure_device_type(catalog, cfg.DRY_RUN, model, manufacturer,
                                    hardware, "none")
       IN /\ fail # "none" => r # r0
          /\ catalog' = [r.c EXCEPT !.n = @ + 1]
    /\ CatalogUnchanged

NextCatalog ==
    \/ \E vendor \in RawVendors, fail \in EnsureFails :
          EnsureManufacturer(vendor, fail)
    \/ \E model \in RawModels, manufacturer \in {"", "Dell", "HPE", "Generic", "Acme"},
          hardware \in RawHardware, fail \in EnsureFails :
          EnsureDeviceType(model, manufacturer, hardware, fail)

\* A target that holds some manufacturers and device types already.
InitCatalog ==
    /\ InitProcess
    /\ cfg \in {DefaultCfg, DryRunCfg}
    /\ InitFresh
    /\ fingerprint = NoFingerprint
    /\ collector = NoCollector
    /\ \E ms \in {{}, {"Dell"}, {"Dell", "Generic"}},
          ts \in {{}, {<<"Dell", "PowerEdge R740">>}} :
          /\ \A t \in ts : t[1] \in ms
          /\ catalog = [NoCatalog EXCEPT !.manufacturers = ms,
                                         !.had_manufacturers = ms,
                                         !.device_types = ts,
                                         !.had_device_types = ts]

SpecCatalog == InitCatalog /\ [][NextCatalog]_vars

(***************************************************************************)
(* The fingerprint on its own: two records, each delivered again with its  *)
(* attributes in another order, and hashed any number of times.            *)
(***************************************************************************)
FingerprintUnchanged ==
    UNCHANGED <<today, hosts, devices, device_roles, nextId, interfaces,
                ip_addresses, redis_hash, lastseen, cfg, stats, phase, queue,
                classified, calls, last, edits, runs, faults, catalog, collector,
                hist>>

\* 167-193: calculate_host_hash of record x.
CalculateHostHash(x) ==
    /\ fingerprint' = [fingerprint EXCEPT !.hash[x] = host_hash(fingerprint.rec[x])]
    /\ FingerprintUnchanged

\* 132-139: host.get answers with the same record, two attributes swapped.
Redeliver(x, i) ==
    /\ i + 1 \in DOMAIN fingerprint.rec[x]
    /\ fingerprint' =
          [fingerprint EXCEPT !.rec[x][i] = fingerprint.rec[x][i + 1],
                              !.rec[x][i + 1] = fingerprint.rec[x][i]]
    /\ FingerprintUnchanged

NextFingerprint ==
    \/ \E x \in {"a", "b"} : CalculateHostHash(x)
    \/ \E x \in {"a", "b"}, i \in 1..MaxAttrs : Redeliver(x, i)

InitFingerprint ==
    /\ InitProcess
    /\ cfg = DefaultCfg
    /\ InitFresh
    /\ catalog = NoCatalog
    /\ collector = NoCollector
    /\ \E a \in HostData, b \in HostData :
          fingerprint = [NoFingerprint EXCEPT !.rec = [x \in {"a", "b"} |->
                                                         IF x = "a" THEN a ELSE b]]

SpecFingerprint == InitFingerprint /\ [][NextFingerprint]_vars

(***************************************************************************)
(* The collector on its own: get_vmware_hosts on any answer of Zabbix.     *)
(***************************************************************************)
CollectorUnchanged ==
    UNCHANGED <<today, hosts, devices, device_roles, nextId, interfaces,
                ip_addresses, redis_hash, lastseen, cfg, stats, phase, queue,
                classified, calls, last, edits, runs, faults, catalog,
                fingerprint, hist>>

\* 128-179
GetVmwareHosts(zfail) ==
    /\ ~collector.called
    /\ collector' = [collector EXCEPT
                       !.called = TRUE, !.zfail = zfail,
                       !.returned = filter_hosts(collector.answer,
                                                 collector.limit, zfail)]
    /\ CollectorUnchanged

\* Between two runs host i is linked to one more template in Zabbix.
LinkTemplate(i, template) ==
    /\ collector.called
    /\ i \in DOMAIN collector.answer
    /\ template \notin collector.answer[i].parentTemplates
    /\ Cardinality(collector.answer[i].parentTemplates) < 2
    /\ collector' = [NoCollector EXCEPT
                       !.limit = collector.limit,
                       !.answer = [collector.answer EXCEPT
                                     ![i].parentTemplates = @ \cup {template}]]
    /\ CollectorUnchanged

NextCollector ==
    \/ \E zfail \in BOOLEAN : GetVmwareHosts(zfail)
    \/ \E i \in 1..MaxSource, template \in TemplateNames : LinkTemplate(i, template)

InitCollector ==
    /\ InitProcess
    /\ cfg = DefaultCfg
    /\ InitFresh
    /\ catalog = NoCatalog
    /\ fingerprint = NoFingerprint
    /\ \E a \in Answers, limit \in 0..MaxSource :
          collector = [NoCollector EXCEPT !.answer = a, !.limit = limit]

SpecCollector == InitCollector /\ [][NextCollector]_vars

-----------------------------------------------------------------------------
(***************************************************************************)
(* Properties. They read the handler that ran last and the state it        *)
(* started from in `last`, and the two most recent runs in `hist`; an       *)
(* environment step clears `last`, so a property about a handler is        *)
(* evaluated in the state the handler left.                                *)
(***************************************************************************)
HostIdOf(dv) == dv.custom_fields.zabbix_hostid

DateOf(dv) == dv.custom_fields.decommissioned_date

\* The hostid is not in the filtered source set.
Absent(id) == id \notin HostIds \/ ~hosts[id].present

\* Another device than the one sync_device worked on carried the record's name
\* when sync_device started.
NameShared ==
    \E x \in DOMAIN last.devices \ {last.device} :
        last.devices[x].name = hosts[last.hostid].name

UniqueExternalId ==
    \A x, y \in DOMAIN devices :
        (x # y /\ HostIdOf(devices[x]) # "") => HostIdOf(devices[x]) # HostIdOf(devices[y])

ExternalIdKept ==
    \A d \in DOMAIN devices \cap DOMAIN last.devices :
        HostIdOf(last.devices[d]) # "" => HostIdOf(devices[d]) = HostIdOf(last.devices[d])

\* C1: the target holds at most one device per zabbix_hostid, and no handler
\* replaces the zabbix_hostid stored on a device by a different one.
C1_OneDevicePerExternalId == UniqueExternalId /\ ExternalIdKept

\* The current run is at least the second, since the previous run started the
\* source was not edited and no cache key expired, and no remote call raised in
\* either of the two runs.
SecondRunIdentical ==
    runs >= 2 /\ hist.same /\ hist.kept /\ ~hist.prevFail /\ ~hist.curFail

DeviceWrites == {c \in calls : c[1] \in {"create", "update"}}

C3_ProtectedFieldsKept ==
    (/\ last.op = "sync_device"
     /\ last.device \in DOMAIN last.devices
     /\ last.device \in DOMAIN devices)
    => /\ \A f \in cfg.PROTECTED_FIELDS :
             devices[last.device][f] = last.devices[last.device][f]
       /\ \A k \in cfg.PROTECTED_CUSTOM_FIELDS :
             devices[last.device].custom_fields[k]
                = last.devices[last.device].custom_fields[k]

\* C4: when sync_device fails on a device that existed before the run (an
\* update), the device is still there after the rollback; and the rollback
\* deletes no device when another device carries the record's name.
C4_RollbackKeepsExistingDevice ==
    (last.op = "sync_device" /\ last.raised # "")
    => /\ (last.device \in hist.startDevs /\ ~last.is_new)
             => last.device \in DOMAIN devices
       /\ NameShared => DOMAIN last.devices \subseteq DOMAIN devices

\* sync_device created a device, the address call raised once the interface
\* was there, and no call of the rollback raised.
NewDeviceFailedBeforeAddress ==
    /\ last.op = "sync_device"
    /\ last.is_new
    /\ last.device # NoDevice
    /\ last.raised = "ip"
    /\ last.rbFail = {}

C6_FailedRecordReprocessed ==
    (last.op = "run_sync" /\ runs >= 2 /\ hist.same /\ ~hist.curFail)
    => \A id \in hist.prevErr :
          hosts[id].present => id \in classified.new \cup classified.changed

\* C7: a device has a decommissioned_date if and only if its status is
\* decommissioning.
C7_DateIffDecommissioning ==
    \A d \in DOMAIN devices :
        (DateOf(devices[d]) # NoDate) <=> (devices[d].status = "decommissioning")

\* C8: when a non-dry sync_device succeeds on an enabled record whose device is
\* decommissioning, the device is active, its decommissioned_date is cleared
\* and the record's name is in recovered_hosts.
C8_RecoveryClearsDate ==
    (/\ last.op = "sync_device"
     /\ last.ok
     /\ ~cfg.DRY_RUN
     /\ last.device \in DOMAIN last.devices
     /\ HostIdOf(last.devices[last.device]) = last.hostid
     /\ last.devices[last.device].status = "decommissioning"
     /\ hosts[last.hostid].status = "0")
    => /\ last.device \in DOMAIN devices
       /\ devices[last.device].status = "active"
       /\ DateOf(devices[last.device]) = NoDate
       /\ \E i \in DOMAIN stats.recovered_hosts :
             stats.recovered_hosts[i] = hosts[last.hostid].name

\* The lifecycle pass ran to its end over device d, which was active, of a
\* managed role, absent from the source, and last seen n days ago.
UnseenFor(d, n) ==
    /\ last.op = "lifecycle"
    /\ ~last.aborted
    /\ last.devices[d].status = "active"
    /\ IsManaged(last.devices[d])
    /\ HostIdOf(last.devices[d]) # ""
    /\ Absent(HostIdOf(last.devices[d]))
    /\ HostIdOf(last.devices[d]) \in DOMAIN last.lastseen
    /\ today - last.lastseen[HostIdOf(last.devices[d])] = n

StaysActive(d) ==
    d \in DOMAIN devices /\ devices[d].status = "active"

Decommissioned(d) ==
    /\ d \in DOMAIN devices
    /\ devices[d].status = "decommissioning"
    /\ DateOf(devices[d]) = today

\* C9 as stated: the lifecycle pass leaves a device last seen
\* DECOMMISSION_AFTER_DAYS days ago active, and makes one last seen a day
\* earlier decommissioning with today as its decommissioned_date.
C9_DecommissionTiming ==
    \A d \in DOMAIN last.devices :
        /\ UnseenFor(d, DECOMMISSION_AFTER_DAYS) => StaysActive(d)
        /\ UnseenFor(d, DECOMMISSION_AFTER_DAYS + 1) => Decommissioned(d)

\* C9, amended: the same, for the lifecycle pass of a non-dry run.
C9_DecommissionTimingNonDry ==
    ~cfg.DRY_RUN =>
        \A d \in DOMAIN last.devices :
            /\ UnseenFor(d, DECOMMISSION_AFTER_DAYS) => StaysActive(d)
            /\ UnseenFor(d, DECOMMISSION_AFTER_DAYS + 1) => Decommissioned(d)

\* A non-dry lifecycle pass has decommissioned a device last seen
\* DECOMMISSION_AFTER_DAYS + 1 days ago.
C9_DecommissionedAfterThreshold ==
    /\ ~cfg.DRY_RUN
    /\ \E d \in DOMAIN last.devices :
          UnseenFor(d, DECOMMISSION_AFTER_DAYS + 1) /\ Decommissioned(d)

\* The lifecycle pass ran over device d, which was active, absent from the
\* source and without a last-seen value.
FirstAbsence(d) ==
    /\ last.op = "lifecycle"
    /\ last.devices[d].status = "active"
    /\ HostIdOf(last.devices[d]) # ""
    /\ Absent(HostIdOf(last.devices[d]))
    /\ HostIdOf(last.devices[d]) \notin DOMAIN last.lastseen

ClockStarted(d) ==
    /\ HostIdOf(last.devices[d]) \in DOMAIN lastseen
    /\ lastseen[HostIdOf(last.devices[d])] = today

\* C10: the lifecycle pass leaves the status and the decommissioned_date of a
\* device on its first absence as they were, and, when it runs to its end and
\* the device is of a managed role, stores today as the last-seen value.
C10_FirstAbsenceStartsClock ==
    \A d \in DOMAIN last.devices :
        FirstAbsence(d)
        => /\ d \in DOMAIN devices
           /\ devices[d].status = "active"
           /\ DateOf(devices[d]) = DateOf(last.devices[d])
           /\ (IsManaged(last.devices[d]) /\ ~last.aborted) => ClockStarted(d)

\* A lifecycle pass has started the clock of a device on its first absence.
C10_ClockStartedOnFirstAbsence ==
    \E d \in DOMAIN last.devices :
        /\ FirstAbsence(d)
        /\ IsManaged(last.devices[d])
        /\ ~last.aborted
        /\ ClockStarted(d)
        /\ devices[d].status = "active"

\* The lifecycle pass has deleted device d.
DeletedByPass(d) ==
    last.op = "lifecycle" /\ d \in DOMAIN last.devices /\ d \notin DOMAIN devices

\* C11: a device that the lifecycle pass deletes was decommissioning, with a
\* decommissioned_date more than DELETE_AFTER_DECOMMISSION_DAYS days old, and
\* physical deletion is enabled.
C11_DeletionOnlyPastThreshold ==
    \A d \in DOMAIN last.devices :
        DeletedByPass(d)
        => /\ cfg.ENABLE_PHYSICAL_DELETION
           /\ last.devices[d].status = "decommissioning"
           /\ DateOf(last.devices[d]) # NoDate
           /\ today - DateOf(last.devices[d]) > DELETE_AFTER_DECOMMISSION_DAYS

\* A lifecycle pass has deleted a device of a managed role.
C11_DeviceDeleted ==
    \E d \in DOMAIN last.devices :
        DeletedByPass(d) /\ last.devices[d].role \in MANAGED_DEVICE_ROLES

\* C12: the lifecycle pass leaves every device whose role is not a managed
\* role in the target, with the status and the custom fields it had.
C12_OtherRolesUntouched ==
    last.op = "lifecycle"
    => \A d \in DOMAIN last.devices :
          last.devices[d].role \notin MANAGED_DEVICE_ROLES
          => /\ d \in DOMAIN devices
             /\ devices[d].status = last.devices[d].status
             /\ devices[d].custom_fields = last.devices[d].custom_fields

\* C13: a run_sync that has returned has executed the lifecycle pass once.
C13_EveryRunHasLifecyclePass ==
    (runs > 0 /\ phase = "idle") => hist.passes = 1

\* Device x sits at the rack position that record id names.
AtTargetOf(dv, id) ==
    /\ hosts[id].software_app_b # ""
    /\ hosts[id].location_lon # 0
    /\ dv.rack = hosts[id].software_app_b
    /\ dv.position = hosts[id].location_lon

\* rack_conflicts holds a record for the host named n.
ConflictRecorded(n) ==
    \E i \in DOMAIN stats.rack_conflicts : stats.rack_conflicts[i].device = n

\* sync_device has just created the device of a record, in a run in which no
\* remote call raised, and earlier in the same run device x was created for
\* another record that names the same rack position, which was free when the
\* run started.
SecondOfTwoNew(x) ==
    /\ last.op = "sync_device"
    /\ cfg.CHECK_RACK_CONFLICTS
    /\ ~hist.curFail
    /\ last.is_new
    /\ last.device \in DOMAIN devices \ DOMAIN last.devices
    /\ x \in DOMAIN last.devices \ hist.startDevs
    /\ HostIdOf(last.devices[x]) \in HostIds \ {last.hostid}
    /\ hosts[HostIdOf(last.devices[x])].software_app_b = hosts[last.hostid].software_app_b
    /\ hosts[HostIdOf(last.devices[x])].location_lon = hosts[last.hostid].location_lon
    /\ hosts[last.hostid].software_app_b # ""
    /\ hosts[last.hostid].location_lon # 0
    /\ \A y \in hist.startDevs \cap DOMAIN last.devices :
          ~AtTargetOf(last.devices[y], last.hostid)

\* C14: of two new records of one run that name the same rack position, the
\* first is created at that position, the second is created without rack and
\* position, and rack_conflicts holds exactly one record, for the second.
C14_SecondOfTwoLosesPosition ==
    \A x \in DOMAIN last.devices :
        SecondOfTwoNew(x)
        => /\ x \in DOMAIN devices
           /\ AtTargetOf(devices[x], last.hostid)
           /\ devices[last.device].rack = ""
           /\ devices[last.device].position = 0
           /\ Len(stats.rack_conflicts) = 1
           /\ stats.rack_conflicts[1].device = hosts[last.hostid].name
           /\ stats.rack_conflicts[1].conflict_with = devices[x].name

\* The second of two such records has been created without a position.
C14_SecondCreatedWithoutRack ==
    \E x \in DOMAIN last.devices :
        /\ SecondOfTwoNew(x)
        /\ devices[last.device].rack = ""
        /\ Len(stats.rack_conflicts) = 1

RackPositionsUnique ==
    \A x, y \in DOMAIN devices :
        (x # y /\ devices[x].rack # "" /\ devices[x].position # 0)
        => ~(devices[x].rack = devices[y].rack /\ devices[x].position = devices[y].position)

\* sync_device succeeded on a record whose rack position was held by a device
\* other than the record's own when it started.
SyncedOntoOccupied ==
    /\ last.op = "sync_device"
    /\ last.ok
    /\ cfg.CHECK_RACK_CONFLICTS
    /\ \E y \in DOMAIN last.devices :
          /\ AtTargetOf(last.devices[y], last.hostid)
          /\ HostIdOf(last.devices[y]) # last.hostid

\* C15: no two devices share a rack and a position, and a sync_device whose
\* record names an occupied position records the conflict.
C15_RackPositionsUniqueAndDetected ==
    /\ cfg.CHECK_RACK_CONFLICTS => RackPositionsUnique
    /\ SyncedOntoOccupied => ConflictRecorded(hosts[last.hostid].name)

\* sync_device succeeded on a record whose own device already sits at the rack
\* position that the record names.
ResyncedInPlace ==
    /\ last.op = "sync_device"
    /\ last.ok
    /\ cfg.CHECK_RACK_CONFLICTS
    /\ ~last.is_new
    /\ last.device \in DOMAIN last.devices
    /\ HostIdOf(last.devices[last.device]) = last.hostid
    /\ AtTargetOf(last.devices[last.device], last.hostid)

\* C16: such a sync_device records no conflict for the record and leaves the
\* device at its rack position.
C16_OwnPositionIsNoConflict ==
    ResyncedInPlace
    => /\ ~ConflictRecorded(hosts[last.hostid].name)
       /\ last.device \in DOMAIN devices
       /\ AtTargetOf(devices[last.device], last.hostid)

\* sync_device succeeded on a record whose device, found by its zabbix_hostid,
\* carried another name than the record when it started.
RenamedRecordSynced ==
    /\ last.op = "sync_device"
    /\ last.ok
    /\ \E x \in DOMAIN last.devices :
          /\ HostIdOf(last.devices[x]) = last.hostid
          /\ last.devices[x].name # hosts[last.hostid].name

\* One rename event, the device under the new name, no device more than before.
RenamedInPlace ==
    /\ hist.renames[last.hostid] = 1
    /\ DOMAIN devices = DOMAIN last.devices
    /\ \A x \in DOMAIN devices :
          HostIdOf(devices[x]) = last.hostid => devices[x].name = hosts[last.hostid].name

ProcessedWithCache ==
    /\ last.op = "sync_device"
    /\ last.ok
    /\ ~cfg.DRY_RUN
    /\ cfg.redis_client

\* The cache entry of the record holds its current hash, set today.
CacheFresh(id) ==
    /\ id \in DOMAIN redis_hash
    /\ redis_hash[id].hash = calculate_host_hash(hosts[id])
    /\ redis_hash[id].set = today

\* C18: when sync_device has processed a record without error, in a non-dry
\* run with the cache available, the cache entry of the record holds its
\* current hash with a fresh TTL, also when the device needed no update.
C18_ProcessedRecordCached ==
    ProcessedWithCache => CacheFresh(last.hostid)

\* check_changes has just classified the records, the Redis read having
\* raised for some of them.
CacheReadFailed ==
    last.op = "run_sync" /\ last.cacheErr # {}

\* sync_device has just raised in the setex that follows the device write.
CacheWriteFailed ==
    last.op = "sync_device" /\ last.raised = "cache"

\* The records whose read raised are classified changed and are on the work
\* list of the run.
ReadFailsOpen ==
    CacheReadFailed
    => /\ last.cacheErr \subseteq classified.changed
       /\ last.cacheErr \subseteq Range(queue)
       /\ phase = "upsert"

\* The record whose write raised is not in error_hosts, and the device that
\* sync_device wrote for it is still in the target.
WriteFailsOpen ==
    CacheWriteFailed
    => /\ hosts[last.hostid].name \notin Range(stats.error_hosts)
       /\ last.device \in DOMAIN devices

\* C19: a record whose Redis read raises in check_changes is classified
\* changed and the run goes on to process it; a record whose Redis write
\* raises in sync_device is not put in error_hosts and its device is not
\* removed by a rollback.
C19_CacheFailureFailsOpen ==
    ReadFailsOpen /\ WriteFailsOpen

\* run_sync has just collected and classified the records, with the cache
\* available and every Redis read answered.
ClassifiedWithCache ==
    /\ last.op = "run_sync"
    /\ phase = "upsert"
    /\ cfg.redis_client
    /\ last.cacheErr = {}

\* The class of a collected record, read from the cache and the source.
ClassOf(id) ==
    IF id \notin DOMAIN redis_hash THEN "new"
    ELSE IF redis_hash[id].hash # calculate_host_hash(hosts[id]) THEN "changed"
    ELSE "unchanged"

\* The number of times a record is on the work list.
TimesQueued(id) == Cardinality({i \in DOMAIN queue : queue[i] = id})

\* C20: with the cache available, check_changes puts every collected record
\* in exactly one class: new when no hash is cached for it, changed when the
\* cached hash differs from its current hash, unchanged when they are equal;
\* an unchanged record is in neither list and is not handed to sync_device.
C20_ClassifiedByCachedHash ==
    /\ ClassifiedWithCache
          => \A id \in Range(get_vmware_hosts(FALSE)) :
                /\ id \in classified.new <=> ClassOf(id) = "new"
                /\ id \in classified.changed <=> ClassOf(id) = "changed"
                /\ TimesQueued(id) = (IF ClassOf(id) = "unchanged" THEN 0 ELSE 1)
    /\ (last.op = "sync_device" /\ cfg.redis_client)
          => last.hostid \in classified.new \cup classified.changed

\* A run has classified one record changed and left another, unchanged, off
\* the work list.
C20_ChangedAndUnchanged ==
    /\ ClassifiedWithCache
    /\ \E a, b \in Range(get_vmware_hosts(FALSE)) :
          /\ ClassOf(a) = "changed" /\ queue = <<a>>
          /\ ClassOf(b) = "unchanged"

\* sync_device has returned once for every record of the new and changed
\* sets of the run, in the order of the work list.
AllUpserted ==
    /\ queue = <<>>
    /\ Range(hist.synced) = classified.new \cup classified.changed
    /\ Len(hist.synced) = Cardinality(classified.new \cup classified.changed)

\* The lifecycle pass has not acted in the current run: nothing is recorded as
\* decommissioned or deleted, and the handler that ran last turned no device
\* to decommissioning.
NoLifecycleYet ==
    /\ hist.passes = 0
    /\ stats.decommissioned_hosts = <<>>
    /\ stats.deleted_hosts = <<>>
    /\ last.op = "sync_device"
          => \A d \in DOMAIN devices \cap DOMAIN last.devices :
                devices[d].status = "decommissioning"
                   => last.devices[d].status = "decommissioning"

\* C21: the lifecycle pass of a run starts only after sync_device has
\* returned for every record of the new and changed sets; while a record of
\* the run waits to be upserted, the pass has decommissioned and deleted
\* nothing.
C21_UpsertBeforeLifecycle ==
    /\ last.op = "lifecycle" => AllUpserted
    /\ (phase = "upsert" /\ queue # <<>>) => NoLifecycleYet

\* The pass has decommissioned a device in a run that upserted two records.
C21_PassAfterTwoUpserts ==
    /\ last.op = "lifecycle"
    /\ Len(hist.synced) = 2
    /\ stats.decommissioned_hosts # <<>>

\* sync_device has worked on a device that the lookup of
\* get_or_create_device found by the record's name, no device carrying the
\* record's zabbix_hostid when it started.
ResolvedByName ==
    /\ last.op = "sync_device"
    /\ ~last.is_new
    /\ last.device \in DOMAIN last.devices
    /\ \A x \in DOMAIN last.devices : HostIdOf(last.devices[x]) # last.hostid

\* C22: a record that is resolved by its name is resolved to a device that
\* carried no zabbix_hostid, and a non-dry sync_device that raised nothing
\* has stored the record's zabbix_hostid on that device.
C22_NameFallbackOnlyForLegacy ==
    ResolvedByName
    => /\ HostIdOf(last.devices[last.device]) = ""
       /\ (~cfg.DRY_RUN /\ last.raised = "")
             => /\ last.device \in DOMAIN devices
                /\ HostIdOf(devices[last.device]) = last.hostid

\* What the caller of a finished run gets: the statistics that run_sync
\* returned and the exit code that main derives from them.
RunOutcome == [stats |-> stats, exit |-> exit_code(stats)]

\* The outcome of a clean run that collected no record: run_sync returns the
\* statistics as they were built (1038-1040).
NothingToDoOutcome == [stats |-> EmptyStats, exit |-> 0]

\* A run has just ended on a collection whose Zabbix call raised.
CollectionFailed ==
    last.op = "run_sync" /\ last.zfail /\ phase = "idle"

\* C23: when the Zabbix call of get_vmware_hosts raises, the run ends with
\* an outcome that differs from that of a clean run that collected nothing.
C23_CollectionFailureSurfaced ==
    CollectionFailed => RunOutcome # NothingToDoOutcome

\* A non-dry sync_device, in a run in which no remote call raised, has
\* handled a record whose rack position was held by device y, a device other
\* than the record's own, when it started; conflict checking is on.
ConflictFound(y) ==
    /\ last.op = "sync_device"
    /\ ~hist.curFail
    /\ ~cfg.DRY_RUN
    /\ cfg.CHECK_RACK_CONFLICTS
    /\ y # last.device
    /\ HostIdOf(last.devices[y]) # last.hostid
    /\ AtTargetOf(last.devices[y], last.hostid)

\* The conflict records of the host named n.
ConflictsOf(n) ==
    {i \in DOMAIN stats.rack_conflicts : stats.rack_conflicts[i].device = n}

\* The record was synced without an error; its device was created without
\* rack and position, or updated without a write to them; and rack_conflicts
\* holds one record for it, with the rack, the position and an occupant of
\* the position.
SyncedWithoutPosition ==
    /\ last.ok
    /\ last.raised = ""
    /\ hosts[last.hostid].name \notin Range(stats.error_hosts)
    /\ last.device \in DOMAIN devices
    /\ IF last.is_new
       THEN devices[last.device].rack = "" /\ devices[last.device].position = 0
       ELSE /\ devices[last.device].rack = last.devices[last.device].rack
            /\ devices[last.device].position = last.devices[last.device].position
    /\ Cardinality(ConflictsOf(hosts[last.hostid].name)) = 1
    /\ \A i \in ConflictsOf(hosts[last.hostid].name) :
          /\ stats.rack_conflicts[i].rack = hosts[last.hostid].software_app_b
          /\ stats.rack_conflicts[i].position = hosts[last.hostid].location_lon
          /\ \E z \in DOMAIN last.devices :
                /\ AtTargetOf(last.devices[z], last.hostid)
                /\ stats.rack_conflicts[i].conflict_with = last.devices[z].name

\* C24: when another device holds the rack position that a record names,
\* sync_device raises no error, creates or updates the record's device
\* without rack and position, and records one conflict with device, rack,
\* position and occupant; a conflict is recorded only with conflict checking
\* on and for a position that is a number.
C24_ConflictFallsBackWithoutError ==
    /\ \A y \in DOMAIN last.devices : ConflictFound(y) => SyncedWithoutPosition
    /\ \A i \in DOMAIN stats.rack_conflicts :
          /\ cfg.CHECK_RACK_CONFLICTS
          /\ stats.rack_conflicts[i].rack # ""
          /\ stats.rack_conflicts[i].position # 0

\* An existing device has been updated, without an error and with one
\* conflict recorded, for a record whose position another device held.
C24_UpdatedWithConflict ==
    /\ \E y \in DOMAIN last.devices : ConflictFound(y)
    /\ ~last.is_new
    /\ ~AtTargetOf(devices[last.device], last.hostid)
    /\ SyncedWithoutPosition

\* A non-dry sync_device has succeeded on a record that has a primary
\* address.
AddressSynced ==
    /\ last.op = "sync_device"
    /\ last.ok
    /\ ~cfg.DRY_RUN
    /\ hosts[last.hostid].ip # ""

\* The primary address of the device is the record's, and the address is
\* assigned to the interface of the device.
PrimaryIs(d, a) ==
    /\ d \in DOMAIN devices
    /\ devices[d].primary_ip4 = a
    /\ d \in interfaces
    /\ a \in DOMAIN ip_addresses
    /\ ip_addresses[a].assigned = d

\* The old primary address was handled as ORPHANED_IP_ACTION says.
OldReleased(old) ==
    IF cfg.ORPHANED_IP_ACTION = "delete" THEN old \notin DOMAIN ip_addresses
    ELSE IF cfg.ORPHANED_IP_ACTION = "deprecated"
    THEN /\ old \in DOMAIN ip_addresses
         /\ ip_addresses[old] = [assigned |-> NoDevice, status |-> "deprecated"]
    ELSE /\ old \in DOMAIN ip_addresses
         /\ ip_addresses[old] = last.ip_addresses[old]

\* The device had another primary address when sync_device started.
HadOtherPrimary ==
    /\ last.device \in DOMAIN last.devices
    /\ last.devices[last.device].primary_ip4 \in DOMAIN last.ip_addresses
    /\ last.devices[last.device].primary_ip4 # hosts[last.hostid].ip

EmptyDiff ==
    /\ last.op = "sync_device"
    /\ last.ok
    /\ ~last.is_new
    /\ last.device \in DOMAIN last.devices
    /\ hosts[last.hostid].software_app_b = ""
    /\ ChangesMade(last.devices[last.device],
                   DeviceData(hosts[last.hostid], last.hostid, NoDevice), "") = {}

\* sync_device wrote nothing for its device: no call on the device, the
\* device, its interface and the addresses as they were.
NothingWritten ==
    /\ \A c \in calls \ last.calls : c[2] # last.device
    /\ last.device \in DOMAIN devices
    /\ devices[last.device] = last.devices[last.device]
    /\ interfaces = last.interfaces
    /\ ip_addresses = last.ip_addresses

\* The record has no primary address, or its primary address is the device's
\* and is assigned to the interface of the device.
AddressInPlace ==
    \/ hosts[last.hostid].ip = ""
    \/ /\ last.devices[last.device].primary_ip4 = hosts[last.hostid].ip
       /\ last.device \in last.interfaces
       /\ hosts[last.hostid].ip \in DOMAIN last.ip_addresses
       /\ last.ip_addresses[hosts[last.hostid].ip].assigned = last.device

\* C26 as stated: when the device of a record exists and the diff is empty,
\* sync_device writes nothing to the target for that device.
C26_EmptyDiffWritesNothing ==
    EmptyDiff => NothingWritten

\* C26, amended: the same, when the primary address of the record is in place
\* too.
C26_EmptyDiffAndAddressWriteNothing ==
    (EmptyDiff /\ AddressInPlace) => NothingWritten

\* sync_device has found the device and its address as the record wants them,
\* and has written nothing.
C26_NoOpSync ==
    /\ EmptyDiff
    /\ AddressInPlace
    /\ hosts[last.hostid].ip # ""
    /\ NothingWritten

\* The create calls of the catalog that carry a given key.
ManufacturersCreated(v) ==
    {i \in DOMAIN catalog.created_manufacturers :
        catalog.created_manufacturers[i].normalized = v}

TypesCreatedAs(m, normalized) ==
    {i \in DOMAIN catalog.created_device_types :
        /\ catalog.created_device_types[i].manufacturer = m
        /\ catalog.created_device_types[i].normalized = normalized}

TypesCreated(m, model) ==
    {i \in DOMAIN catalog.created_device_types :
        /\ catalog.created_device_types[i].manufacturer = m
        /\ catalog.created_device_types[i].model = model}

OneManufacturerPerVendor ==
    \A i \in DOMAIN catalog.created_manufacturers :
        Cardinality(ManufacturersCreated(
            catalog.created_manufacturers[i].normalized)) <= 1

ExistingNotCreated ==
    /\ catalog.last.existed => ~catalog.last.created
    /\ \A i \in DOMAIN catalog.created_manufacturers :
          catalog.created_manufacturers[i].name \notin catalog.had_manufacturers
    /\ \A i \in DOMAIN catalog.created_device_types :
          <<catalog.created_device_types[i].manufacturer,
            catalog.created_device_types[i].model>> \notin catalog.had_device_types

\* C27 as stated: in a non-dry run at most one manufacturer is created per
\* normalized vendor name and at most one device type per (manufacturer,
\* normalized model) pair, and nothing is created for an object the target holds.
C27_OneCreatePerNormalizedValue ==
    ~cfg.DRY_RUN =>
        /\ OneManufacturerPerVendor
        /\ \A i \in DOMAIN catalog.created_device_types :
              Cardinality(TypesCreatedAs(
                  catalog.created_device_types[i].manufacturer,
                  catalog.created_device_types[i].normalized)) <= 1
        /\ ExistingNotCreated

\* C27: in a non-dry run at most one manufacturer is created per normalized
\* vendor name and at most one device type per pair of manufacturer and model
\* looked up (the normalized model, or for an unknown model the one named by the
\* hardware field or Generic Server), and nothing is created for an object the
\* target holds.
C27_OneCreatePerResolvedValue ==
    ~cfg.DRY_RUN =>
        /\ OneManufacturerPerVendor
        /\ \A i \in DOMAIN catalog.created_device_types :
              Cardinality(TypesCreated(
                  catalog.created_device_types[i].manufacturer,
                  catalog.created_device_types[i].model)) <= 1
        /\ ExistingNotCreated

\* A device type was created, and a later call for the same value found it.
C27_CreatedThenFound ==
    /\ ~cfg.DRY_RUN
    /\ catalog.created_device_types # <<>>
    /\ catalog.created_manufacturers # <<>>
    /\ catalog.last.op = "ensure_device_type"
    /\ catalog.last.existed
    /\ catalog.last.returned
    /\ \E i \in DOMAIN catalog.created_device_types :
          catalog.created_device_types[i].normalized = "Unknown"

\* The record that sync_device was given last lacks a name or an inventory.
InvalidRecord ==
    /\ last.op = "sync_device"
    /\ hosts[last.hostid].name = "" \/ ~hosts[last.hostid].inventory

\* No remote call is made for a record that lacks a name or an inventory: no
\* call that raises changes what sync_device does with it.
InvalidRecordCallsNothing ==
    \A id \in HostIds :
        hosts[id].name = "" \/ ~hosts[id].inventory =>
            \A lk \in LookupFails, fail \in Fails, rbFail \in RbFails,
               qfail \in BOOLEAN :
                sync_device(World, id, lk, fail, rbFail, qfail)
                    = sync_device(World, id, "none", "none", {}, FALSE)

\* C28: sync_device skips a record with an empty external id, an empty name or
\* an empty inventory: the name is added to skipped_hosts, False is returned,
\* nothing of the target is read or written, error_hosts is left alone, and the
\* run goes on with the records that follow.
C28_InvalidRecordSkipped ==
    /\ \A id \in HostIds : ~validate_host_data("", hosts[id])
    /\ InvalidRecordCallsNothing
    /\ InvalidRecord =>
          /\ ~last.ok
          /\ last.device = NoDevice
          /\ last.raised = ""
          /\ stats = [last.stats EXCEPT
                        !.skipped_hosts = Append(@, hosts[last.hostid].name)]
          /\ devices = last.devices
          /\ interfaces = last.interfaces
          /\ ip_addresses = last.ip_addresses
          /\ calls = last.calls
          /\ phase = "upsert"
    /\ last.op = "lifecycle" /\ stats.skipped_hosts # <<>> => AllUpserted

\* A record without a name was skipped while another record waits.
C28_SkippedBeforeNext ==
    /\ InvalidRecord
    /\ hosts[last.hostid].name = ""
    /\ stats.skipped_hosts = <<"">>
    /\ queue # <<>>

\* C29: when the manufacturer or the device type of a record cannot be resolved,
\* sync_device creates and updates no device, appends the record to error_hosts
\* with a reason in error_details, returns False, and the run goes on with the
\* records that follow.
C29_UnresolvedRecordIsError ==
    /\ last.op = "sync_device" /\ last.dep =>
          /\ ~last.ok
          /\ last.device = NoDevice
          /\ devices = last.devices
          /\ calls = last.calls
          /\ stats.error_hosts
                = Append(last.stats.error_hosts, hosts[last.hostid].name)
          /\ hosts[last.hostid].name \in DOMAIN stats.error_details
          /\ stats.error_details[hosts[last.hostid].name] # ""
          /\ phase = "upsert"
    /\ last.op = "lifecycle" /\ stats.error_hosts # <<>> => AllUpserted

\* The type of the first record did not resolve, and the second record waits.
C29_UnresolvedBeforeNext ==
    /\ last.op = "sync_device"
    /\ last.dep
    /\ Len(stats.error_hosts) = 1
    /\ DOMAIN devices = DOMAIN last.devices
    /\ queue # <<>>

RollbackSteps == {"ip", "interface", "device"}

\* Rolling back device d, its interface and its address a with the steps of
\* rbFail raising still carries out every other step.
OtherStepsCarriedOut(d, a, rbFail) ==
    LET w == rollback_device_creation(World, d, devices[d].name, d, a, rbFail)
    IN /\ "ip" \notin rbFail => a \notin DOMAIN w.ip_addresses
       /\ "interface" \notin rbFail => d \notin w.interfaces
       /\ "device" \notin rbFail
            /\ Cardinality({x \in DOMAIN devices :
                               devices[x].name = devices[d].name}) = 1
            => d \notin DOMAIN w.devices

\* C30: a compensating step of the rollback that raises is caught inside the
\* rollback: the other steps are still carried out, sync_device returns False,
\* and the run goes on with the records that follow.
C30_RollbackFailureContained ==
    /\ ~cfg.DRY_RUN =>
          \A d \in DOMAIN devices, a \in DOMAIN ip_addresses,
             rbFail \in SUBSET RollbackSteps :
              d \in interfaces /\ ip_addresses[a].assigned = d
                  => OtherStepsCarriedOut(d, a, rbFail)
    /\ last.op = "sync_device" /\ last.rbFail # {} =>
          /\ ~last.ok
          /\ hosts[last.hostid].name \in Range(stats.error_hosts)
          /\ phase = "upsert"
    /\ last.op = "lifecycle" /\ hist.curErr # {} => AllUpserted

\* The deletion of the device raised in the rollback of a failed sync_device,
\* the device is still there, and another record waits.
C30_DeviceStepRaised ==
    /\ last.op = "sync_device"
    /\ last.rbFail = {"device"}
    /\ last.device \in DOMAIN devices
    /\ last.device \notin DOMAIN last.devices
    /\ ~last.ok
    /\ queue # <<>>

\* The raw keys that calculate_host_hash reads.
SignificantKeys ==
    {"name", "os", "os_short", "hardware", "software_app_a", "alias", "location",
     "interfaces", "status", "serialno_a", "asset_tag", "location_lat",
     "location_lon"}

\* Two records agree on every significant field, vendor and model compared
\* after normalization.
SameSignificant(a, b) ==
    /\ \A k \in SignificantKeys : Get(a, k, "") = Get(b, k, "")
    /\ normalize_vendor(Get(a, "vendor", "")) = normalize_vendor(Get(b, "vendor", ""))
    /\ normalize_model(Get(a, "model", "")) = normalize_model(Get(b, "model", ""))

BothHashed == fingerprint.hash["a"] # NoHash /\ fingerprint.hash["b"] # NoHash

\* C31: the hash computed for a record is the hash of the record however its
\* attributes are ordered and however often it is computed, and two records
\* get the same hash exactly when they agree on every significant field
\* (vendor and model after normalization).
C31_HashOfSignificantFields ==
    /\ \A x \in {"a", "b"} :
          fingerprint.hash[x] # NoHash
              => fingerprint.hash[x] = host_hash(fingerprint.rec[x])
    /\ BothHashed =>
          (fingerprint.hash["a"] = fingerprint.hash["b"]
              <=> SameSignificant(fingerprint.rec["a"], fingerprint.rec["b"]))

\* Two records with the same hash that name the vendor differently and carry
\* their attributes in different orders.
C31_SameHashOtherOrder ==
    /\ BothHashed
    /\ fingerprint.hash["a"] = fingerprint.hash["b"]
    /\ Get(fingerprint.rec["a"], "vendor", "") = "Dell Inc."
    /\ Get(fingerprint.rec["b"], "vendor", "") = "DELL"
    /\ Len(fingerprint.rec["a"]) = 2
    /\ Len(fingerprint.rec["b"]) = 2
    /\ fingerprint.rec["a"][1][1] = fingerprint.rec["b"][2][1]

\* The records of the answer that pass, by a given test of membership, in
\* source order, cut to the limit when one is set.
Expected(in_list(_, _)) ==
    LET pass(host) ==
            /\ \E t \in host.parentTemplates, x \in INCLUDED_TEMPLATES : in_list(t, x)
            /\ ~\E t \in host.parentTemplates, x \in EXCLUDED_TEMPLATES : in_list(t, x)
            /\ ~\E g \in host.groups, x \in EXCLUDED_GROUPS : in_list(g, x)
        passing == SelectSeq(collector.answer, pass)
    IN IF collector.limit # 0
       THEN SubSeq(passing, 1, Min(collector.limit, Len(passing)))
       ELSE passing

Collected == collector.called /\ ~collector.zfail

NameIs(name, listed) == name = listed

NameHolds(name, listed) ==
    \/ name = listed
    \/ name = "Template VM VMware Hypervisor" /\ listed = "VMware Hypervisor"
    \/ name = "Template Net SNMP v2" /\ listed = "Template Net SNMP"
    \/ name = "Network devices" /\ listed = "Network"

\* C32 as stated: get_vmware_hosts returns exactly the records that are in an
\* allow-listed template, in no deny-listed template and in no deny-listed
\* group, in source order, cut to the first HOST_LIMIT records.
C32_ReturnsListedRecords ==
    Collected => collector.returned = Expected(NameIs)

\* C32: get_vmware_hosts returns exactly the records that have a template whose
\* name contains an allow-listed name, no template whose name contains a
\* deny-listed name and no group whose name contains a deny-listed name, in
\* source order, cut to the first HOST_LIMIT records.
C32_ReturnsRecordsByContainedName ==
    Collected => collector.returned = Expected(NameHolds)

\* Two records pass, one of them by a template name that only contains the
\* allow-listed name, and the limit cuts the second.
C32_CutToLimit ==
    /\ Collected
    /\ collector.limit = 1
    /\ Len(collector.answer) = 2
    /\ Len(collector.returned) = 1
    /\ collector.returned[1].hostid = "h1"
    /\ "Template VM VMware Hypervisor" \in collector.answer[1].parentTemplates
    /\ Expected(NameHolds) # Expected(NameIs)
    /\ has_included(collector.answer[2]) /\ ~has_excluded(collector.answer[2])
    /\ ~has_excluded_group(collector.answer[2])

\* C33: after a lifecycle pass that ran with the cache and collected the
\* active source set, the last-seen date of every external id of that set is
\* the current date, also when marking or deleting a device failed.
C33_LastSeenRefreshed ==
    last.op = "lifecycle" /\ cfg.redis_client /\ ~last.zfail =>
        \A id \in Range(get_vmware_hosts(FALSE)) :
            id \in DOMAIN lastseen /\ lastseen[id] = today


\* The record of id passes the template and group filters of the collector.
PassesFilters(id) == id \in HostIds /\ hosts[id].present

\* C34: the lifecycle pass does not move to decommissioning a device whose
\* external id belongs to a source record that passes the collector's
\* filters, also when HOST_LIMIT is set.
C34_FilteredRecordStaysActive ==
    last.op = "lifecycle" /\ ~last.zfail =>
        \A d \in DOMAIN devices \cap DOMAIN last.devices :
            /\ PassesFilters(devices[d].custom_fields.zabbix_hostid)
            /\ last.devices[d].status = "active"
            => devices[d].status = "active"


\* The active source set the lifecycle pass collected.
ActiveCollected == Range(get_vmware_hosts(last.zfail))

\* C35: the lifecycle pass does not hard-delete a device whose external id
\* is in the active source set collected in that same pass.
C35_ActiveNeverDeleted ==
    last.op = "lifecycle" /\ cfg.redis_client =>
        \A d \in DOMAIN last.devices :
            last.devices[d].custom_fields.zabbix_hostid \in ActiveCollected
                => d \in DOMAIN devices


\* Device d carried no zabbix_hostid when the handler started.
NoExternalId(d) == last.devices[d].custom_fields.zabbix_hostid = ""

\* C36: the lifecycle pass stamps a decommissioned-at date on, or
\* hard-deletes, only devices that carry an external id: a device without
\* one, also one in status decommissioning, is left as it was.
C36_OnlyExternalIdTouched ==
    last.op = "lifecycle" =>
        \A d \in DOMAIN last.devices :
            NoExternalId(d) => d \in DOMAIN devices /\ devices[d] = last.devices[d]


\* Address a was assigned to an interface of a device other than the synced one.
OfOtherDevice(a) == last.ip_addresses[a].assigned \notin {NoDevice, last.device}

\* C37: sync_device of one device does not change the assignment of an
\* address that is assigned to an interface of a different device, so every
\* device's primary address stays assigned to an interface of that device.
C37_OtherAssignmentKept ==
    last.op = "sync_device" =>
        \A a \in DOMAIN last.ip_addresses :
            OfOtherDevice(a) =>
                /\ a \in DOMAIN ip_addresses
                /\ ip_addresses[a].assigned = last.ip_addresses[a].assigned


\* The target holds a device of that name.
HasDevice(host_name) == \E d \in DOMAIN devices : devices[d].name = host_name

\* C38: at the end of the upsert pass of a non-dry run every record listed
\* in new_hosts has a device in the target, and no record is listed both in
\* new_hosts or changed_hosts and in error_hosts.
C38_NewHostsExistAndNoError ==
    phase = "upsert" /\ UpsertPassDone(queue) /\ ~cfg.DRY_RUN =>
        /\ \A host_name \in Range(stats.new_hosts) : HasDevice(host_name)
        /\ (Range(stats.new_hosts) \cup Range(stats.changed_hosts))
               \cap Range(stats.error_hosts) = {}


\* In a dry run ensure_manufacturer and ensure_device_type leave the
\* manufacturers and device types as they were (over SpecCatalog).
DryRunCatalogAsBefore ==
    cfg.DRY_RUN =>
        /\ catalog.manufacturers = catalog.had_manufacturers
        /\ catalog.device_types = catalog.had_device_types

\* The handler left devices, interfaces and addresses as they were.
TargetAsBefore ==
    /\ devices = last.devices
    /\ interfaces = last.interfaces
    /\ ip_addresses = last.ip_addresses

\* C39: in dry-run mode run_sync (upsert pass and lifecycle pass) creates,
\* updates and deletes no device, role, interface or address, and writes no
\* fingerprint hash or snapshot to the cache (which starts empty here).
C39_DryRunWritesNothing ==
    cfg.DRY_RUN =>
        /\ calls = {}
        /\ redis_hash = EmptyFn
        /\ device_roles = {devices[d].role : d \in DOMAIN devices}
        /\ last.op \in {"sync_device", "lifecycle"} => TargetAsBefore

\* A dry run has synced a record and its lifecycle pass has reported a device
\* for decommissioning.
C39_DryRunCompleted ==
    /\ cfg.DRY_RUN
    /\ last.op = "lifecycle"
    /\ hist.synced # <<>>
    /\ stats.decommissioned_hosts # <<>>

=============================================================================
